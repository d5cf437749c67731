------------------------------- MODULE MapVotes -------------------------------
(***************************************************************************)
(* Community map votes of one game server (src/map-votes): the ballots in  *)
(* the database, the handlers that open them, the members who vote, the    *)
(* timed worker that closes, reconciles and opens ballots, the staff who    *)
(* close ballots, save the voting controls and queue maps themselves, and  *)
(* the game whose rotation the winning map is written to.                  *)
(*                                                                         *)
(* A handler is a sequence of steps with one external call or one database *)
(* transaction each; any other handler may run between two of its steps,   *)
(* and any handler may die between them.                                   *)
(***************************************************************************)
EXTENDS Integers, Sequences, FiniteSets

CONSTANTS
  Manual,        \* IDs of ballots a person starts
  Automatic,          \* IDs of ballots the worker starts
  Users,         \* community members who may vote
  Maps,          \* map entries a ballot can offer
  Fifty,         \* the 50v50 option, offered by automatic ballots only
  Base,          \* the entry a rotation holds where nobody queued a map
  NoVote, NoChoice,
  StaffOps,      \* receipts of map-next actions by a person, each used once
  Workers,       \* bot processes running the voting tick
  TieRule,       \* "keep_rotation" or "first_option", for automatic ballots
  RefusalBrake,  \* REFUSAL_BRAKE, 3 in the code
  MaxRound,      \* bound: rounds the game plays
  MaxRevision,   \* bound: writes to the server configuration
  MaxVersion     \* bound: saves of the voting controls

ASSUME VotesAssumption ==
  /\ Manual \cap Automatic = {}
  /\ NoVote \notin Manual \cup Automatic
  /\ Fifty \notin Maps /\ Base \notin Maps \cup {Fifty}
  /\ NoChoice \notin Maps \cup {Fifty}
  /\ TieRule \in {"keep_rotation", "first_option"}
ASSUME BoundsAssumption ==
  /\ RefusalBrake \in Nat \ {0}
  /\ MaxRound \in Nat /\ MaxRevision \in Nat /\ MaxVersion \in Nat
ASSUME UsersAssumption == IsFiniteSet(Users)

VARIABLES
  policy,      \* saved controls: enabled and version (map_vote_policies)
  voteState,   \* map_votes.state, "none" before the row exists
  order,       \* ballot IDs in order of creation
  row,         \* what a ballot was planned on: rotation, revision, round, policy version
  messageId,   \* ballots whose Discord message ID is stored
  ballots,     \* map_vote_ballots: each member's current choice
  counts, winner,
  outcome,     \* automation.outcome: "none", "refused" or "unready"
  queue,       \* automation.queue: ballots whose planned rotation is stored
  highest,     \* automation.highestScore
  expired,     \* ballots whose closesAt has passed
  receipt,     \* the admin_actions row recorded under a ballot's ID
  events,      \* ballots under whose ID a 50v50 event is recorded
  posted,      \* ballots shown in the Discord channel
  game,        \* rotation, revision, current round and leading score
  opener,      \* step of the handler that publishes a ballot
  pc, cur, seen, conclusion,  \* worker: step, ballot, what it read, its conclusion
  staffOp,     \* state of a person's map-next receipt, "none" before it
  staffPc,     \* step of the handler running that action
  since,       \* ballots that existed when that receipt was recorded
  wrote,       \* history: how often a ballot's winner was written to the game
  replaced,    \* history: ballots whose written winner was replaced later
  everNext,    \* history: entries that have been next after a round
  closedBy,    \* history: ballots a person closed
  heeded       \* history: a person's queues standing when a close was claimed

planVars == <<order, row>>
tallyVars == <<ballots, counts, winner>>
autoVars == <<outcome, queue, highest>>
auditVars == <<receipt, events>>
dbVars == <<policy, planVars, messageId, tallyVars, autoVars, auditVars>>
worldVars == <<expired, posted, game>>
workVars == <<pc, cur, seen, conclusion>>
staffVars == <<staffOp, staffPc, since>>
historyVars == <<wrote, replaced, everNext, closedBy, heeded>>
vars == <<dbVars, voteState, worldVars, opener, workVars, staffVars,
          historyVars>>

\* Steps that change only the worker, only a publishing handler, only the states.
WorkerOnly == UNCHANGED <<dbVars, voteState, worldVars, opener, staffVars,
                          historyVars>>
OpenerOnly == UNCHANGED <<dbVars, voteState, worldVars, workVars, staffVars,
                          historyVars>>
StateOnly == UNCHANGED <<dbVars, worldVars, opener, workVars, staffVars,
                         historyVars>>

Votes == Manual \cup Automatic
Choices == Maps \cup {Fifty}
Entries == Maps \cup {Base}
Rounds == 0 .. MaxRound
\* Leading score: 0 before the close score, 1 from it on, 2 once the match ended.
Scores == 0 .. 2
CloseScore == 1
MatchOver == 2

VoteStates == {"publishing", "open", "closing", "queued", "no_votes", "tied",
               "cancelled", "needs_review"}
ActiveStates == {"publishing", "open", "closing", "needs_review"}
FinalStates == VoteStates \ ActiveStates

Active == {v \in Votes : voteState[v] \in ActiveStates}
Existing == {v \in Votes : voteState[v] # "none"}
Latest == IF order = <<>> THEN NoVote ELSE order[Len(order)]
Offered(v) == IF v \in Automatic THEN Choices ELSE Maps

Unwritten == [r \in Rounds |-> Base]
GameOf(rotation, revision, round, score) ==
  [rotation |-> rotation, revision |-> revision, round |-> round, score |-> score]
Reading(rotation, revision, score, latest) ==
  [rotation |-> rotation, revision |-> revision, score |-> score, latest |-> latest]
NoReading == Reading(Unwritten, 0, 0, NoVote)
NoRow == [rotation |-> Unwritten, revision |-> 0, round |-> 0, version |-> 0]

-------------------------------------------------------------------------------
(* Counting: claimClose tallies the stored choices, ballotWinner picks.     *)

Voters(v, c) == {u \in Users : ballots[v][u] = c}
Tally(v) == [c \in Choices |-> Cardinality(Voters(v, c))]
Leaders(t) == {c \in Choices : t[c] > 0 /\ \A d \in Choices : t[d] <= t[c]}
\* Mutated form of BallotWinner: a tie may go to 50v50, or be broken without first_option.
TiesPickAny(t, rule) == IF Leaders(t) = {} THEN NoChoice
                        ELSE IF Fifty \in Leaders(t) THEN Fifty
                        ELSE CHOOSE c \in Leaders(t) : TRUE
\* A tie keeps the rotation unless first_option is chosen; 50v50 must win outright.
BallotWinner(t, rule) ==
  LET l == Leaders(t) IN
  IF \E c \in Choices : l = {c} THEN CHOOSE c \in Choices : l = {c}
  ELSE IF rule = "first_option" /\ l \cap Maps # {} THEN CHOOSE c \in l \cap Maps : TRUE
  ELSE NoChoice
RuleOf(v) == IF v \in Automatic THEN TieRule ELSE "keep_rotation"

-------------------------------------------------------------------------------
(* Steps shared by several handlers.                                        *)

SetState(v, s) == voteState' = [voteState EXCEPT ![v] = s]
Opening(v, step) == opener' = [opener EXCEPT ![v] = step]
AtStep(w, step) == pc' = [pc EXCEPT ![w] = step]
Release(w) ==
  /\ pc' = [pc EXCEPT ![w] = "idle"] /\ cur' = [cur EXCEPT ![w] = NoVote]
  /\ seen' = [seen EXCEPT ![w] = NoReading]
  /\ conclusion' = [conclusion EXCEPT ![w] = "none"]
Go(w, step) == AtStep(w, step) /\ UNCHANGED <<cur, seen, conclusion>>
Take(w, v, step) ==
  /\ pc[w] = "idle"
  /\ pc' = [pc EXCEPT ![w] = step] /\ cur' = [cur EXCEPT ![w] = v]
Conclude(w, step, result) ==
  /\ pc' = [pc EXCEPT ![w] = step]
  /\ conclusion' = [conclusion EXCEPT ![w] = result]
  /\ UNCHANGED <<cur, seen>>

\* store.cancel, store.finish and store.recover: the states each of them may leave.
Cancellable(v) == voteState[v] \in {"open", "needs_review"}
\* Mutated form of Finishable: a finish that forgets the state it may leave.
FinishAnything(v) == TRUE
Finishable(v) == voteState[v] \in {"publishing", "closing"}
\* Mutated form of Interrupted: recovery that forgets interrupted publishing.
OnlyClosing(v) == voteState[v] = "closing"
Interrupted(v) == voteState[v] \in {"publishing", "closing"}

Init ==
  /\ policy = [enabled |-> FALSE, version |-> 0]
  /\ voteState = [v \in Votes |-> "none"]
  /\ order = <<>>
  /\ row = [v \in Votes |-> NoRow]
  /\ messageId = {} /\ posted = {} /\ expired = {}
  /\ ballots = [v \in Votes |-> [u \in Users |-> NoChoice]]
  /\ counts = [v \in Votes |-> [c \in Choices |-> 0]]
  /\ winner = [v \in Votes |-> NoChoice]
  /\ outcome = [v \in Votes |-> "none"]
  /\ queue = {} /\ events = {}
  /\ highest = [v \in Votes |-> 0]
  /\ receipt = [v \in Votes |-> "none"]
  /\ game = GameOf(Unwritten, 0, 0, 0)
  /\ opener = [v \in Votes |-> "idle"]
  /\ pc = [w \in Workers |-> "idle"] /\ cur = [w \in Workers |-> NoVote]
  /\ seen = [w \in Workers |-> NoReading]
  /\ conclusion = [w \in Workers |-> "none"]
  /\ staffOp = [s \in StaffOps |-> "none"]
  /\ staffPc = [s \in StaffOps |-> "idle"]
  /\ since = [s \in StaffOps |-> {}]
  /\ wrote = [v \in Votes |-> 0]
  /\ replaced = {} /\ everNext = {} /\ closedBy = {}
  /\ heeded = [v \in Votes |-> {}]

-------------------------------------------------------------------------------
(* The voting controls.                                                     *)

CloseAutomatic ==
  voteState' = [v \in Votes |-> IF v \in Automatic /\ voteState[v] = "open"
                                  THEN "cancelled" ELSE voteState[v]]
\* Saving under the per-server lock; switching off closes open automatic ballots
\* in the same transaction.
SavePolicy(on) ==
  /\ policy.version < MaxVersion
  /\ policy' = [enabled |-> on, version |-> policy.version + 1]
  /\ IF on THEN UNCHANGED voteState ELSE CloseAutomatic
  /\ UNCHANGED <<planVars, tallyVars, messageId, autoVars, auditVars, worldVars,
                 opener, workVars, staffVars, historyVars>>

-------------------------------------------------------------------------------
(* Opening a ballot: read the game, record the row, publish, confirm.        *)

Snapshot(version) == [rotation |-> game.rotation, revision |-> game.revision,
                      round |-> game.round, version |-> version]

\* A person's start request reads the configuration before it records anything.
PrepareManual(v) ==
  /\ v \in Manual /\ voteState[v] = "none" /\ opener[v] = "idle"
  /\ row' = [row EXCEPT ![v] = Snapshot(0)]
  /\ Opening(v, "create")
  /\ UNCHANGED <<policy, voteState, order, tallyVars, messageId, autoVars,
                 auditVars, worldVars, workVars, staffVars, historyVars>>

\* Mutated form of Record: an insert without the unique index.
RecordBeside(v) ==
  /\ SetState(v, "publishing")
  /\ order' = Append(order, v)
  /\ Opening(v, "publish")
\* The insert: the partial unique index admits one unfinished ballot per server.
Record(v) ==
  /\ Active = {}
  /\ SetState(v, "publishing")
  /\ order' = Append(order, v)
  /\ Opening(v, "publish")

CreateManual(v) ==
  /\ opener[v] = "create" /\ v \in Manual
  /\ Record(v)
  /\ UNCHANGED <<policy, row, tallyVars, messageId, autoVars, auditVars,
                 worldVars, workVars, staffVars, historyVars>>

RefuseManual(v) ==
  /\ opener[v] = "create" /\ v \in Manual /\ Active # {}
  /\ Opening(v, "idle")
  /\ OpenerOnly

\* Where the newest automatic ballots stand among the first n, RefusalBrake at most.
Recent(n) == {i \in 1 .. n :
  /\ order[i] \in Automatic
  /\ Cardinality({j \in i .. n : order[j] \in Automatic}) <= RefusalBrake}
\* Mutated form of Braked: more ballots than the newest ones are asked for.
BrakedLater == Cardinality(Recent(Len(order))) > RefusalBrake
\* The newest automatic ballots all refused under the controls as saved now.
Braked ==
  /\ Cardinality(Recent(Len(order))) = RefusalBrake
  /\ \A i \in Recent(Len(order)) :
       LET v == order[i] IN
         /\ voteState[v] = "cancelled" /\ outcome[v] = "refused"
         /\ row[v].version = policy.version
BallotedThisRound == Latest # NoVote /\ row[Latest].round = game.round

\* openAutomatic up to the call of start: the saved controls, the history and the
\* game are read here and used after further awaits.
EvaluateOpen(w, v) ==
  /\ v \in Automatic /\ voteState[v] = "none"
  /\ \A x \in Workers : cur[x] # v
  /\ Take(w, v, "create")
  /\ policy.enabled /\ Active = {} /\ ~Braked /\ ~BallotedThisRound
  /\ game.score < CloseScore
  /\ row' = [row EXCEPT ![v] = Snapshot(policy.version)]
  /\ seen' = [seen EXCEPT ![w] = Reading(Unwritten, 0, 0, Latest)]
  /\ UNCHANGED <<policy, voteState, order, tallyVars, messageId, autoVars,
                 auditVars, worldVars, opener, conclusion, staffVars, historyVars>>

\* start reads the game again before it records the row.
StillPlanned(v) == /\ row[v].rotation = game.rotation
                   /\ row[v].round = game.round
                   /\ game.score < CloseScore
Confirm(w) ==
  LET v == cur[w] IN
  /\ pc[w] = "create"
  /\ IF StillPlanned(v)
       THEN Go(w, "insert")
       ELSE Release(w)
  /\ WorkerOnly

\* Mutated form of MayInsert: the newest ballot is not compared under the lock.
InsertStale(w) == policy.enabled /\ policy.version = row[cur[w]].version
\* The per-server lock: controls, newest ballot and active index in one transaction.
MayInsert(w) ==
  LET v == cur[w] IN
  /\ policy.enabled /\ policy.version = row[v].version
  /\ Latest = seen[w].latest

CreateAutomatic(w) ==
  LET v == cur[w] IN
  /\ pc[w] = "insert" /\ MayInsert(w)
  /\ Record(v)
  /\ AtStep(w, "publishing")
  /\ UNCHANGED <<policy, row, tallyVars, messageId, autoVars, auditVars,
                 worldVars, cur, seen, conclusion, staffVars, historyVars>>

RefuseAutomatic(w) ==
  /\ pc[w] = "insert" /\ ~(MayInsert(w) /\ Active = {})
  /\ Release(w)
  /\ WorkerOnly

\* The tick waits for start to return.
EndOpening(w) ==
  /\ pc[w] = "publishing" /\ opener[cur[w]] = "idle"
  /\ Release(w)
  /\ WorkerOnly

\* discord.publish answers, or throws with the message posted or not.
Publish(v, shown, step) ==
  /\ opener[v] = "publish"
  /\ posted' = IF shown THEN posted \cup {v} ELSE posted
  /\ Opening(v, step)
  /\ UNCHANGED <<dbVars, voteState, expired, game, workVars, staffVars,
                 historyVars>>
Published(v) == Publish(v, TRUE, "confirm")
PublishUnconfirmed(v) == \E shown \in BOOLEAN : Publish(v, shown, "fail")

\* store.published: only a ballot still publishing opens.
ConfirmPublished(v) ==
  /\ opener[v] = "confirm"
  /\ IF voteState[v] = "publishing"
       THEN /\ SetState(v, "open") /\ messageId' = messageId \cup {v}
            /\ Opening(v, IF v \in Automatic THEN "recheck" ELSE "idle")
       ELSE Opening(v, "fail") /\ UNCHANGED <<voteState, messageId>>
  /\ UNCHANGED <<policy, planVars, tallyVars, autoVars, auditVars, worldVars,
                 workVars, staffVars, historyVars>>

\* The controls are read once more: they may have been switched off while publishing.
RecheckPolicy(v) ==
  /\ opener[v] = "recheck"
  /\ Opening(v, IF policy.enabled THEN "idle" ELSE "undo")
  /\ OpenerOnly
RecheckUnreadable(v) ==
  /\ opener[v] = "recheck"
  /\ Opening(v, "fail")
  /\ OpenerOnly

UndoOpen(v) ==
  /\ opener[v] = "undo"
  /\ IF Cancellable(v) THEN SetState(v, "cancelled") /\ Opening(v, "idle")
                       ELSE Opening(v, "fail") /\ UNCHANGED voteState
  /\ UNCHANGED <<dbVars, worldVars, workVars, staffVars, historyVars>>

\* The catch of start: finish to needs_review, which ignores any other state.
FailOpen(v) ==
  /\ opener[v] = "fail"
  /\ IF Finishable(v) THEN SetState(v, "needs_review") ELSE UNCHANGED voteState
  /\ Opening(v, "idle")
  /\ UNCHANGED <<dbVars, worldVars, workVars, staffVars, historyVars>>

-------------------------------------------------------------------------------
(* Members, time and staff closing a ballot.                                 *)

\* Mutated form of TakesVotes: votes are taken until the ballot is final.
UntilFinal(v) == v \notin expired /\ voteState[v] \in ActiveStates
\* Closing and voting lock the same row.
TakesVotes(v) == v \notin expired /\ voteState[v] = "open"

\* The buttons exist once the message is posted.
Cast(v, u, c) ==
  /\ v \in posted /\ v \in messageId /\ c \in Offered(v)
  /\ TakesVotes(v)
  /\ ballots[v][u] # c
  /\ ballots' = [ballots EXCEPT ![v][u] = c]
  /\ UNCHANGED <<policy, voteState, planVars, messageId, counts, autoVars, winner,
                 auditVars, worldVars, opener, workVars, staffVars, historyVars>>

Expire(v) ==
  /\ voteState[v] = "open" /\ v \notin expired
  /\ expired' = expired \cup {v}
  /\ UNCHANGED <<dbVars, voteState, posted, game, opener, workVars, staffVars,
                 historyVars>>

StaffClose(v) ==
  /\ Cancellable(v)
  /\ SetState(v, "cancelled")
  /\ closedBy' = closedBy \cup {v}
  /\ UNCHANGED <<dbVars, worldVars, opener, workVars, staffVars, wrote, replaced,
                 everNext, heeded>>

-------------------------------------------------------------------------------
(* The tick: recovery, expiry and the observation of open automatic ballots. *)

\* From its last check of the ballot's state a close needs one receipt and one
\* bounded game request (8 s each): RecoverDelay, 120 s, is assumed longer than that.
Sending(w, v) ==
  /\ cur[w] = v
  /\ \/ pc[w] \in {"begin", "send", "put", "settle", "fifty", "unsure"}
     \/ pc[w] = "staff" /\ winner[v] = Fifty

\* Publishing or closing for RecoverDelay: the ballot is uncertain from here on.
Recover(w, v) ==
  /\ pc[w] = "idle"
  /\ Interrupted(v)
  /\ \A x \in Workers : ~Sending(x, v)
  /\ SetState(v, "needs_review")
  /\ StateOnly

\* An expired automatic ballot never queues a winner.
CancelExpired(w, v) ==
  /\ pc[w] = "idle" /\ v \in Automatic /\ v \in expired /\ voteState[v] = "open"
  /\ SetState(v, "cancelled")
  /\ StateOnly

\* staffQueuedSince: a person's map-next since the ballot opened that was not refused.
StaffQueues(v) ==
  {s \in StaffOps : v \in since[s] /\ staffOp[s] \notin {"none", "failed"}}

\* claimClose: the row lock is held while the stored choices are counted.
Count(v) ==
  /\ voteState[v] = "open"
  /\ SetState(v, "closing")
  /\ counts' = [counts EXCEPT ![v] = Tally(v)]
  /\ winner' = [winner EXCEPT ![v] = BallotWinner(Tally(v), RuleOf(v))]
  /\ heeded' = [heeded EXCEPT ![v] = StaffQueues(v)]

ClaimExpired(w, v) ==
  /\ v \in Manual /\ v \in expired
  /\ Take(w, v, "close")
  /\ Count(v)
  /\ UNCHANGED <<policy, planVars, messageId, ballots, autoVars, auditVars,
                 worldVars, opener, seen, conclusion, staffVars, wrote, replaced,
                 everNext, closedBy>>

RoundGone(v) == \/ game.rotation # row[v].rotation
                \/ game.round # row[v].round
                \/ game.score >= MatchOver \/ game.score < highest[v]
\* observeAutomatic reads the controls, the rotation, the round and the score ...
MustCancel(v) == ~policy.enabled \/ RoundGone(v)
Observe(w, v) ==
  /\ v \in Automatic /\ voteState[v] = "open"
  /\ Take(w, v, IF MustCancel(v) THEN "cancel" ELSE "observed")
  /\ seen' = [seen EXCEPT ![w] = Reading(Unwritten, 0, game.score, NoVote)]
  /\ WorkerOnly /\ UNCHANGED <<conclusion>>
\* ... and cancels the ballot, or records the score and claims the close at the cutoff.
CancelObserved(w) ==
  LET v == cur[w] IN
  /\ pc[w] = "cancel"
  /\ IF Cancellable(v) THEN SetState(v, "cancelled") ELSE UNCHANGED voteState
  /\ Release(w)
  /\ UNCHANGED <<dbVars, worldVars, opener, staffVars, historyVars>>

ObserveScore(w) ==
  LET v == cur[w] score == seen[w].score
      recorded == voteState[v] = "open" /\ score >= highest[v] IN
  /\ pc[w] = "observed"
  /\ highest' = IF recorded THEN [highest EXCEPT ![v] = score] ELSE highest
  /\ IF recorded /\ score >= CloseScore
       THEN Go(w, "claim")
       ELSE Release(w)
  /\ UNCHANGED <<policy, voteState, planVars, tallyVars, messageId, outcome,
                 queue, auditVars, worldVars, opener, staffVars, historyVars>>

ClaimAtScore(w) ==
  LET v == cur[w] IN
  /\ pc[w] = "claim"
  /\ IF voteState[v] = "open" /\ highest[v] >= CloseScore /\ policy.enabled
       THEN Count(v) /\ Go(w, "close")
       ELSE Release(w) /\ UNCHANGED <<voteState, counts, winner, heeded>>
  /\ UNCHANGED <<policy, planVars, messageId, ballots, autoVars, auditVars,
                 worldVars, opener, staffVars, wrote, replaced, everNext, closedBy>>

-------------------------------------------------------------------------------
(* close: the checks before a winner is sent.                                *)

\* The saved rotation and the round are as planned, and the score still closes.
GameAgrees(v) ==
  /\ game.round = row[v].round
  /\ IF v \in Automatic
       THEN /\ game.rotation = row[v].rotation
            /\ game.score >= CloseScore /\ game.score < MatchOver
       ELSE game.revision = row[v].revision

CloseUndecided(w) ==
  LET v == cur[w] IN
  /\ pc[w] = "close" /\ winner[v] = NoChoice
  /\ Conclude(w, "finish", IF \E c \in Choices : counts[v][c] > 0
                             THEN "tied" ELSE "no_votes")
  /\ WorkerOnly

CheckGame(w) ==
  LET v == cur[w] IN
  /\ pc[w] = "close" /\ winner[v] # NoChoice /\ GameAgrees(v)
  /\ AtStep(w, "recheck")
  /\ seen' = [seen EXCEPT ![w] = Reading(game.rotation, game.revision, 0, NoVote)]
  /\ WorkerOnly /\ UNCHANGED <<cur, conclusion>>

\* A reading that disagrees or cannot be made, or a creator without access.
CloseUnsafe(w) ==
  /\ pc[w] \in {"close", "recheck", "staff"} /\ winner[cur[w]] # NoChoice
  /\ Conclude(w, "finish", "cancelled")
  /\ WorkerOnly

\* The controls are still on and the ballot is still this worker's to close.
RecheckBallot(w) ==
  LET v == cur[w] IN
  /\ pc[w] = "recheck" /\ (v \in Automatic => policy.enabled)
  /\ IF voteState[v] = "closing"
       THEN Go(w, "staff")
       ELSE Release(w)
  /\ WorkerOnly

YieldToStaff(w) ==
  /\ pc[w] = "staff" /\ StaffQueues(cur[w]) # {}
  /\ Conclude(w, "finish", "cancelled")
  /\ WorkerOnly

\* Mutated form of NoStaffQueue: a person's queue is not looked up.
StaffIgnored(v) == TRUE
NoStaffQueue(v) == StaffQueues(v) = {}

\* Otherwise the 50v50 starts, an automatic ballot plans its place, a manual one sends.
StaffClear(w) ==
  LET v == cur[w] IN
  /\ pc[w] = "staff" /\ NoStaffQueue(v)
  /\ Go(w, IF winner[v] = Fifty THEN "fifty"
           ELSE IF v \in Automatic THEN "plan" ELSE "begin")
  /\ WorkerOnly

\* planMapNext on the rotation read by CheckGame.
AlreadyNext(w) ==
  /\ pc[w] = "plan" /\ seen[w].rotation[row[cur[w]].round] = winner[cur[w]]
  /\ Conclude(w, "finish", "queued")
  /\ WorkerOnly

\* The last slot no longer wraps to entry 1: the winner would be appended.
WouldAppend(w) ==
  /\ pc[w] = "plan"
  /\ Conclude(w, "finish", "cancelled")
  /\ WorkerOnly

\* patchAutomation: what the rotation was and will be, stored before it is sent.
RecordPlan(w) ==
  LET v == cur[w] IN
  /\ pc[w] = "plan" /\ seen[w].rotation[row[v].round] # winner[v]
  /\ IF voteState[v] = "closing"
       THEN /\ queue' = queue \cup {v} /\ Go(w, "begin")
       ELSE Release(w) /\ UNCHANGED queue
  /\ UNCHANGED <<policy, voteState, planVars, tallyVars, messageId, outcome,
                 highest, auditVars, worldVars, opener, staffVars, historyVars>>

-------------------------------------------------------------------------------
(* Writing the rotation: a person, another tool or a ballot.                 *)

PutEntry(r, e) ==
  /\ game' = GameOf([game.rotation EXCEPT ![r] = e], game.revision + 1, game.round,
                   game.score)
  /\ everNext' = everNext \cup {<<r, e>>}
  /\ replaced' = replaced \cup {v \in Votes : /\ wrote[v] > 0 /\ row[v].round = r
                                               /\ winner[v] # e}

-------------------------------------------------------------------------------
(* queueWinner: the receipt, the conditional write, the recorded result.     *)

\* Mutated form of Recorded: the write goes out without a receipt.
Unrecorded(v) == receipt' = receipt
Recorded(v) == receipt' = [receipt EXCEPT ![v] = "started"]
BeginReceipt(w) ==
  LET v == cur[w] IN
  /\ pc[w] = "begin" /\ receipt[v] = "none"
  /\ Recorded(v)
  /\ AtStep(w, "send")
  /\ UNCHANGED <<policy, voteState, planVars, tallyVars, messageId, autoVars,
                 events, worldVars, opener, cur, seen, conclusion, staffVars,
                 historyVars>>

\* Throttled, or the receipt could not be stored: nothing is sent.
BeginRefused(w) ==
  /\ pc[w] = "begin"
  /\ Conclude(w, "finish", "refused")
  /\ WorkerOnly

\* changeServerConfiguration reads the document and the position first.
SendCheck(w) ==
  LET v == cur[w] IN
  /\ pc[w] = "send"
  /\ \/ /\ game.revision = seen[w].revision /\ game.round = row[v].round
        /\ IF game.rotation[row[v].round] = winner[v]
             THEN Conclude(w, "settle", "applied")
             ELSE Go(w, "put")
     \/ Conclude(w, "settle", "failed")
  /\ WorkerOnly

\* Mutated form of IfMatch: the write goes out without If-Match.
Unconditional(w) == TRUE
\* The PUT carries If-Match: another revision refuses it.
IfMatch(w) == game.revision = seen[w].revision
PutWinner(w) ==
  LET v == cur[w] IN
  /\ pc[w] = "put" /\ IfMatch(w)
  /\ PutEntry(row[v].round, winner[v])
  /\ wrote' = [wrote EXCEPT ![v] = @ + 1]
  /\ \E result \in {"pending", "unknown"} : Conclude(w, "settle", result)
  /\ UNCHANGED <<dbVars, voteState, expired, posted, opener, staffVars, closedBy,
                 heeded>>
PutRefused(w) ==
  /\ pc[w] = "put" /\ ~IfMatch(w)
  /\ Conclude(w, "settle", "failed")
  /\ WorkerOnly
PutLost(w) ==
  /\ pc[w] = "put"
  /\ Conclude(w, "settle", "unknown")
  /\ WorkerOnly

\* Mutated form of FinalOf: an unknown result counts as a refusal.
UnknownRefused(result) == IF result \in {"applied", "pending"} THEN "queued" ELSE "refused"
FinalOf(result) == IF result \in {"applied", "pending"} THEN "queued"
                   ELSE IF result = "failed" THEN "refused" ELSE "needs_review"

Settle(w) ==
  /\ pc[w] = "settle"
  /\ receipt' = [receipt EXCEPT ![cur[w]] = conclusion[w]]
  /\ Conclude(w, "finish", FinalOf(conclusion[w]))
  /\ UNCHANGED <<policy, voteState, planVars, tallyVars, messageId, autoVars,
                 events, worldVars, opener, staffVars, historyVars>>
\* The audit record could not be saved: the result is reported as unknown.
SettleLost(w) ==
  /\ pc[w] = "settle"
  /\ Conclude(w, "finish", "needs_review")
  /\ WorkerOnly

\* startFromVote: recorded, refused while getting ready, or an error either way.
StartFifty(w) ==
  LET v == cur[w] IN
  /\ pc[w] = "fifty"
  /\ \/ events' = events \cup {v} /\ Conclude(w, "finish", "queued")
     \/ events' = events /\ Conclude(w, "finish", "unready")
     \/ /\ events' \in {events, events \cup {v}}
        /\ Go(w, "unsure")
  /\ UNCHANGED <<policy, voteState, planVars, tallyVars, messageId, autoVars,
                 receipt, worldVars, opener, staffVars, historyVars>>
ReadEvent(w) ==
  /\ pc[w] = "unsure"
  /\ \/ cur[w] \in events /\ Conclude(w, "finish", "queued")
     \/ Conclude(w, "finish", "needs_review")
  /\ WorkerOnly

\* Mutated form of Ending: the reported result is stored as the state.
AsReported(result) == result
\* A refused map change or an event not ready leaves the rotation as it was.
Ending(result) == IF result \in {"refused", "unready"} THEN "cancelled" ELSE result

\* store.finish: a ballot no longer publishing or closing keeps its state.
Finish(w) ==
  LET v == cur[w] mine == Finishable(v) IN
  /\ pc[w] = "finish"
  /\ IF mine
       THEN SetState(v, Ending(conclusion[w]))
       ELSE UNCHANGED voteState
  /\ outcome' = IF mine /\ conclusion[w] \in {"refused", "unready"}
                  THEN [outcome EXCEPT ![v] = conclusion[w]] ELSE outcome
  /\ Release(w)
  /\ UNCHANGED <<policy, planVars, tallyVars, messageId, queue, highest,
                 auditVars, worldVars, opener, staffVars, historyVars>>

-------------------------------------------------------------------------------
(* reconcile: what Discord, the event store, the rotation or the receipt     *)
(* show about an automatic ballot in review.                                 *)

After(v) == [row[v].rotation EXCEPT ![row[v].round] = winner[v]]
\* Mutated form of FromReceipt: a receipt counts as a write.
StartedCounts(v) == IF receipt[v] = "none" THEN "cancelled" ELSE "queued"
FromReceipt(v) == IF receipt[v] = "none" THEN "cancelled"
                  ELSE IF receipt[v] \in {"applied", "pending"} THEN "queued"
                  ELSE IF receipt[v] = "failed" THEN "refused" ELSE "wait"
ReviewConclusion(v) ==
  IF v \notin messageId THEN IF v \in posted THEN "late" ELSE "unposted"
  ELSE IF winner[v] = Fifty THEN IF v \in events THEN "queued" ELSE "cancelled"
  ELSE IF v \in queue /\ game.rotation = After(v) THEN "queued"
  ELSE IF v \in queue /\ game.rotation = row[v].rotation THEN "cancelled"
  ELSE FromReceipt(v)

\* Mutated form of InReview: only posted ballots are reviewed.
PostedOnly(v) == voteState[v] = "needs_review" /\ v \in messageId
InReview(v) == voteState[v] = "needs_review"
ReviewRead(w, v) ==
  /\ v \in Automatic /\ InReview(v) /\ ReviewConclusion(v) # "wait"
  /\ Take(w, v, "resolve")
  /\ conclusion' = [conclusion EXCEPT ![w] = ReviewConclusion(v)]
  /\ WorkerOnly /\ UNCHANGED <<seen>>

\* resolveReview: a staff close that happened first wins.
Resolve(w) ==
  LET v == cur[w] mine == voteState[v] = "needs_review" IN
  /\ pc[w] = "resolve"
  /\ IF mine
       THEN SetState(v, IF conclusion[w] = "queued" THEN "queued" ELSE "cancelled")
       ELSE UNCHANGED voteState
  /\ messageId' = IF mine /\ conclusion[w] = "late"
                    THEN messageId \cup {v} ELSE messageId
  /\ outcome' = IF mine /\ conclusion[w] = "refused"
                  THEN [outcome EXCEPT ![v] = "refused"] ELSE outcome
  /\ Release(w)
  /\ UNCHANGED <<policy, planVars, tallyVars, queue, highest, auditVars,
                 worldVars, opener, staffVars, historyVars>>

-------------------------------------------------------------------------------
(* A person's map-next: receipt, game, and the listener for an unchanged     *)
(* queue, which closes the open ballot.                                      *)

QueueBegin(s) ==
  /\ staffOp[s] = "none"
  /\ staffOp' = [staffOp EXCEPT ![s] = "started"]
  /\ staffPc' = [staffPc EXCEPT ![s] = "send"]
  /\ since' = [since EXCEPT ![s] = Existing]
  /\ UNCHANGED <<dbVars, voteState, worldVars, opener, workVars, historyVars>>

QueueEnd(s, result, step) ==
  /\ staffPc[s] = "send"
  /\ staffOp' = [staffOp EXCEPT ![s] = result]
  /\ staffPc' = [staffPc EXCEPT ![s] = step]
  /\ UNCHANGED <<dbVars, voteState, expired, posted, opener, workVars, since,
                 wrote, closedBy, heeded>>
QueueUnchanged(s, e) ==
  /\ game.rotation[game.round] = e
  /\ QueueEnd(s, "applied", "listen")
  /\ UNCHANGED <<game, replaced, everNext>>
QueueChanged(s, e) ==
  /\ game.rotation[game.round] # e /\ game.revision < MaxRevision
  /\ \E result \in {"pending", "unknown"} : QueueEnd(s, result, "idle")
  /\ PutEntry(game.round, e)
QueueNotSent(s) ==
  /\ \E result \in {"failed", "unknown"} : QueueEnd(s, result, "idle")
  /\ UNCHANGED <<game, replaced, everNext>>

\* staffQueuedNext.
QueueListen(s) ==
  /\ staffPc[s] = "listen"
  /\ voteState' = [v \in Votes |->
       IF voteState[v] = "open" THEN "cancelled" ELSE voteState[v]]
  /\ closedBy' = closedBy \cup {v \in Votes : voteState[v] = "open"}
  /\ staffPc' = [staffPc EXCEPT ![s] = "idle"]
  /\ UNCHANGED <<dbVars, worldVars, opener, workVars, staffOp, since, wrote,
                 replaced, everNext, heeded>>

-------------------------------------------------------------------------------
(* The game, and edits of its configuration outside the ballots.             *)

ScoreRises ==
  /\ game.score < MatchOver
  /\ game' = GameOf(game.rotation, game.revision, game.round, game.score + 1)
  /\ UNCHANGED <<dbVars, voteState, expired, posted, opener, workVars, staffVars,
                 historyVars>>
NextRound ==
  /\ game.round < MaxRound
  /\ game' = GameOf(game.rotation, game.revision, game.round + 1, 0)
  /\ UNCHANGED <<dbVars, voteState, expired, posted, opener, workVars, staffVars,
                 historyVars>>
SettingsSave ==
  /\ game.revision < MaxRevision
  /\ game' = GameOf(game.rotation, game.revision + 1, game.round, game.score)
  /\ UNCHANGED <<dbVars, voteState, expired, posted, opener, workVars, staffVars,
                 historyVars>>
RotationSave(e) ==
  /\ game.revision < MaxRevision /\ game.rotation[game.round] # e
  /\ PutEntry(game.round, e)
  /\ UNCHANGED <<dbVars, voteState, expired, posted, opener, workVars, staffVars,
                 wrote, closedBy, heeded>>

-------------------------------------------------------------------------------
(* A process stops between two steps of the handlers it runs.                *)

CrashWorker(w) ==
  /\ pc[w] # "idle"
  /\ Release(w)
  /\ opener' = [v \in Votes |-> IF pc[w] = "publishing" /\ cur[w] = v
                                  THEN "idle" ELSE opener[v]]
  /\ UNCHANGED <<dbVars, voteState, worldVars, staffVars, historyVars>>
CrashOpener(v) ==
  /\ v \in Manual /\ opener[v] # "idle"
  /\ Opening(v, "idle")
  /\ OpenerOnly
CrashStaff(s) ==
  /\ staffPc[s] # "idle"
  /\ staffPc' = [staffPc EXCEPT ![s] = "idle"]
  /\ UNCHANGED <<dbVars, voteState, worldVars, opener, workVars, historyVars,
                 staffOp, since>>

-------------------------------------------------------------------------------

OpenerStep(v) ==
  \/ PrepareManual(v) \/ CreateManual(v) \/ RefuseManual(v) \/ Published(v)
  \/ PublishUnconfirmed(v) \/ ConfirmPublished(v) \/ RecheckPolicy(v)
  \/ RecheckUnreadable(v) \/ UndoOpen(v) \/ FailOpen(v) \/ CrashOpener(v)
VoteStep(v) ==
  \/ \E u \in Users, c \in Choices : Cast(v, u, c)
  \/ Expire(v) \/ StaffClose(v)
TickStep(w, v) ==
  \/ Recover(w, v) \/ CancelExpired(w, v) \/ ClaimExpired(w, v)
  \/ Observe(w, v) \/ EvaluateOpen(w, v) \/ ReviewRead(w, v)
OpenTickStep(w) == Confirm(w) \/ CreateAutomatic(w) \/ RefuseAutomatic(w)
                   \/ EndOpening(w)
CloseStep(w) ==
  \/ CancelObserved(w) \/ ObserveScore(w) \/ ClaimAtScore(w)
  \/ CloseUndecided(w) \/ CheckGame(w) \/ CloseUnsafe(w) \/ RecheckBallot(w)
  \/ YieldToStaff(w) \/ StaffClear(w) \/ AlreadyNext(w) \/ WouldAppend(w)
  \/ RecordPlan(w) \/ StartFifty(w) \/ ReadEvent(w) \/ Finish(w) \/ Resolve(w)
ActStep(w) ==
  \/ BeginReceipt(w) \/ BeginRefused(w) \/ SendCheck(w) \/ PutWinner(w)
  \/ PutRefused(w) \/ PutLost(w) \/ Settle(w) \/ SettleLost(w)
WorkerStep(w) == OpenTickStep(w) \/ CloseStep(w) \/ ActStep(w)
StaffStep(s) ==
  \/ QueueBegin(s) \/ QueueNotSent(s) \/ QueueListen(s) \/ CrashStaff(s)
  \/ \E e \in Maps : QueueUnchanged(s, e) \/ QueueChanged(s, e)
GameStep == \/ ScoreRises \/ NextRound \/ SettingsSave
            \/ \E e \in Entries : RotationSave(e)

Next ==
  \/ \E on \in BOOLEAN : SavePolicy(on)
  \/ \E v \in Votes : OpenerStep(v) \/ VoteStep(v)
  \/ \E w \in Workers, v \in Votes : TickStep(w, v)
  \/ \E w \in Workers : WorkerStep(w) \/ CrashWorker(w)
  \/ \E s \in StaffOps : StaffStep(s)
  \/ GameStep

Spec == Init /\ [][Next]_vars

\* Publishing awaits only Discord and the database, both of which answer or fail.
Advance(v) == \/ Published(v) \/ PublishUnconfirmed(v) \/ ConfirmPublished(v)
              \/ RecheckPolicy(v) \/ UndoOpen(v) \/ FailOpen(v)
\* Every tick visits every due, open, reviewed and interrupted ballot, so a visit
\* possible in infinitely many ticks takes place (SF); a process that keeps being
\* restarted still finishes some of its steps.
Fairness ==
  /\ \A v \in Votes : WF_vars(Advance(v))
  /\ \A w \in Workers :
       /\ SF_vars(WorkerStep(w))
       /\ \A v \in Votes : /\ SF_vars(Recover(w, v)) /\ SF_vars(Observe(w, v))
                           /\ SF_vars(CancelExpired(w, v) \/ ClaimExpired(w, v))
                           /\ SF_vars(ReviewRead(w, v))
FairSpec == Spec /\ Fairness

-------------------------------------------------------------------------------
Steps == {"idle", "create", "insert", "publishing", "cancel", "observed",
          "claim", "close", "recheck", "staff", "plan", "begin", "send", "put",
          "settle", "fifty", "unsure", "finish", "resolve"}
Conclusions == {"none", "queued", "no_votes", "tied", "cancelled", "needs_review",
             "refused", "unready", "applied", "pending", "failed", "unknown",
             "late", "unposted"}
Readings == [rotation : [Rounds -> Entries], revision : Nat, score : Scores,
             latest : Votes \cup {NoVote}]
Rows == [rotation : [Rounds -> Entries], revision : Nat, round : Rounds,
         version : Nat]
StateTypes ==
  /\ policy \in [enabled : BOOLEAN, version : Nat]
  /\ voteState \in [Votes -> VoteStates \cup {"none"}]
PlanTypes ==
  order \in Seq(Votes) /\ row \in [Votes -> Rows] /\ messageId \subseteq Votes
TallyTypes ==
  /\ ballots \in [Votes -> [Users -> Choices \cup {NoChoice}]]
  /\ counts \in [Votes -> [Choices -> Nat]]
  /\ winner \in [Votes -> Choices \cup {NoChoice}]
AutomationTypes ==
  /\ outcome \in [Votes -> {"none", "refused", "unready"}]
  /\ queue \subseteq Votes /\ events \subseteq Votes
  /\ highest \in [Votes -> Scores]
  /\ receipt \in [Votes -> {"none", "started", "applied", "pending", "failed",
                            "unknown"}]
WorldTypes ==
  /\ posted \subseteq Votes /\ expired \subseteq Votes
  /\ game \in [rotation : [Rounds -> Entries], revision : Nat, round : Rounds,
               score : Scores]
OpenerTypes == opener \in [Votes -> {"idle", "create", "publish", "confirm",
                                     "recheck", "undo", "fail"}]
WorkTypes ==
  /\ pc \in [Workers -> Steps] /\ cur \in [Workers -> Votes \cup {NoVote}]
  /\ seen \in [Workers -> Readings] /\ conclusion \in [Workers -> Conclusions]
StaffTypes ==
  /\ staffOp \in [StaffOps -> {"none", "started", "applied", "pending", "failed",
                               "unknown"}]
  /\ staffPc \in [StaffOps -> {"idle", "send", "listen"}]
  /\ since \in [StaffOps -> SUBSET Votes]
HistoryTypes ==
  /\ wrote \in [Votes -> Nat]
  /\ replaced \subseteq Votes /\ closedBy \subseteq Votes
  /\ everNext \subseteq Rounds \X Entries
  /\ heeded \in [Votes -> SUBSET StaffOps]
\* A ballot's row, its handlers and the game document keep the values their columns,
\* states and schemas allow; a conclusion is never stored as a state it is not.
TypeOK == /\ StateTypes /\ PlanTypes /\ TallyTypes /\ AutomationTypes
          /\ WorldTypes /\ OpenerTypes /\ WorkTypes /\ StaffTypes /\ HistoryTypes

Counted(v) == voteState[v] \in {"closing", "queued", "no_votes", "tied"}
\* One ballot per server is unfinished at a time, whoever opened it, and even when
\* handlers of several processes open, recover and close ballots at once.
OneActive == \A v, x \in Active : v = x
\* Once a close has claimed the ballot, the stored counts are those of the stored
\* choices for good: a vote arriving during the close is refused, never half counted.
TallyExact == \A v \in Votes : Counted(v) =>
                counts[v] = Tally(v) /\ winner[v] = BallotWinner(Tally(v), RuleOf(v))
\* A winner is written to the game at most once, whatever is retried, recovered or
\* restarted, and never before its receipt is on record.
WrittenOnce == \A v \in Votes : wrote[v] <= 1 /\ (wrote[v] > 0 => receipt[v] # "none")
\* "Winner queued" is said only of a ballot whose winner has been the next entry of
\* the round it was held in, or whose 50v50 event is recorded.
QueuedIsTrue == \A v \in Votes : voteState[v] = "queued" =>
                  IF winner[v] = Fifty THEN v \in events
                  ELSE <<row[v].round, winner[v]>> \in everNext
\* A ballot reported as left without effect did not change the game, unless a person
\* closed it in review or its winner has been replaced since.
DroppedIsTrue == \A v \in Votes : voteState[v] \in {"cancelled", "tied", "no_votes"} =>
                   /\ wrote[v] > 0 => v \in replaced \cup closedBy
                   /\ v \in events => v \in closedBy
\* What staff read about a settled ballot is what happened to the game.
ResultIsTrue == QueuedIsTrue /\ DroppedIsTrue
\* A map a person queued after the ballot opened, and before its close was claimed,
\* is never overwritten by the ballot.
StaffChoiceWins == \A v \in Votes : wrote[v] > 0 => heeded[v] \cap StaffQueues(v) = {}
\* A ballot replaces only the entry its close read: an edit in between refuses it.
NoBlindOverwrite ==
  [][\A v \in Votes : wrote'[v] # wrote[v] =>
       \E w \in Workers : cur[w] = v /\ game.rotation = seen[w].rotation]_vars
\* An automatic ballot opens in a later round than the ballot before it, also when a
\* slow worker opens it from an old reading.
OncePerRound == \A i \in 1 .. Len(order) - 1 :
                  order[i + 1] \in Automatic => row[order[i]].round < row[order[i + 1]].round
\* No automatic ballot follows RefusalBrake refusals under the same saved controls.
BrakeHolds ==
  \A n \in 1 .. Len(order) : order[n] \in Automatic =>
    LET before == Recent(n - 1) IN
    ~ /\ Cardinality(before) = RefusalBrake
      /\ \A i \in before : /\ outcome[order[i]] = "refused"
                            /\ row[order[i]].version = row[order[n]].version
\* No ballot stays in publishing or closing: what a dead handler left is reviewed.
InterruptedEnds == \A v \in Votes :
  voteState[v] \in {"publishing", "closing"} ~> voteState[v] \notin {"publishing", "closing"}
\* An automatic ballot in review is settled as long as Discord, the rotation, the
\* event store or the receipt keep showing what happened to it.
ReviewEnds == \A v \in Automatic :
  ~ <>[](voteState[v] = "needs_review" /\ ReviewConclusion(v) # "wait")
\* No ballot stays open past its time, nor an automatic one past its match, a change
\* of its rotation or the switch of automatic voting.
StaleEnds == \A v \in Votes :
  ~ <>[](/\ voteState[v] = "open"
         /\ \/ v \in expired
            \/ v \in Automatic /\ (~policy.enabled \/ RoundGone(v)))
\* Every ballot comes to its end, whatever dies or is lost on the way.
BallotsSettle == InterruptedEnds /\ ReviewEnds /\ StaleEnds

Promise == INSTANCE BallotPromise
             WITH Ballots <- Votes, Outright <- {Fifty}, status <- voteState,
                  choice <- ballots
\* Opening, voting, closing, recovery and staff actions together keep the promise.
PromiseKept == Promise!Spec
===============================================================================
