---------------------------- MODULE MapVotesProofs ----------------------------
(***************************************************************************)
(* Proofs about MapVotes for any number of members, ballots, processes and *)
(* rounds.  The inductive invariant IInv joins the types, what every       *)
(* handler knows of the ballot it holds (Control) and OneActive; with it   *)
(* every step is a step of BallotPromise, and the counts and the single    *)
(* write follow.  The second part proves the rules a ballot keeps beside   *)
(* that promise: when an automatic ballot may open (OrderInv), and what    *)
(* its winner may do to the game (ReadsInv, StaffInv, ResultInv).  Each of *)
(* these is inductive together with IInv, and its lemmas say first what a  *)
(* step may change at all.                                                 *)
(***************************************************************************)
EXTENDS MapVotes, FiniteSetTheorems, TLAPS

CloseSteps == {"close", "recheck", "staff", "plan", "begin", "send", "put",
               "settle", "fifty", "unsure", "finish", "resolve"}
PastOpen == {"closing", "needs_review"} \cup FinalStates

\* What each worker's step says of the ballot it holds.
Sound(w) ==
  /\ pc[w] # "idle" => cur[w] \in Votes
  /\ pc[w] \in CloseSteps => voteState[cur[w]] \in PastOpen
  /\ pc[w] \in {"recheck", "staff"} => winner[cur[w]] # NoChoice
  /\ pc[w] \in {"plan", "begin", "send", "put"} => winner[cur[w]] \in Maps
  /\ pc[w] \in {"fifty", "unsure"} => winner[cur[w]] = Fifty
  /\ pc[w] = "settle" => conclusion[w] \in {"applied", "pending", "failed", "unknown"}
  /\ pc[w] = "settle" => winner[cur[w]] # NoChoice
  /\ pc[w] = "finish" =>
       /\ conclusion[w] \in {"queued", "no_votes", "tied", "cancelled", "needs_review",
                         "refused", "unready"}
       /\ conclusion[w] = "queued" => winner[cur[w]] # NoChoice
       /\ conclusion[w] \in {"no_votes", "tied"} => winner[cur[w]] = NoChoice
  /\ pc[w] = "resolve" /\ conclusion[w] = "queued" => winner[cur[w]] # NoChoice
FreshManual == \A v \in Votes : opener[v] = "create" =>
                 v \in Manual /\ voteState[v] = "none"
FreshAuto == \A w \in Workers : pc[w] \in {"create", "insert"} =>
               /\ cur[w] \in Automatic /\ voteState[cur[w]] = "none"
               /\ \A x \in Workers : cur[x] = cur[w] => x = w
WinnerPast == \A v \in Votes : winner[v] # NoChoice => voteState[v] \in PastOpen
HasWinner == \A v \in Votes :
  v \in queue \/ receipt[v] # "none" => winner[v] # NoChoice

Control == /\ \A w \in Workers : Sound(w)
           /\ FreshManual /\ FreshAuto /\ WinnerPast /\ HasWinner
IInv == TypeOK /\ Control /\ OneActive

-------------------------------------------------------------------------------
(* Type correctness, one lemma per group of actions.                        *)

\* Counting a ballot yields a number for every choice: there are finitely many members.
LEMMA TallyType ==
  ASSUME NEW v \in Votes, TallyTypes
  PROVE  /\ \A c \in Choices : IsFiniteSet(Voters(v, c))
         /\ Tally(v) \in [Choices -> Nat]
<1>1. \A c \in Choices : IsFiniteSet(Voters(v, c))
  BY UsersAssumption, FS_Subset DEF Voters
<1> QED BY <1>1, FS_CardinalityType DEF Tally

\* The winner of a tally is an offered choice or none.
LEMMA WinnerType ==
  ASSUME NEW t \in [Choices -> Nat], NEW rule
  PROVE  BallotWinner(t, rule) \in Choices \cup {NoChoice}
<1>1. Leaders(t) \subseteq Choices BY DEF Leaders
<1>2. CASE \E c \in Choices : Leaders(t) = {c}
  BY <1>2 DEF BallotWinner
<1>3. CASE ~\E c \in Choices : Leaders(t) = {c}
  BY <1>1, <1>3 DEF BallotWinner
<1> QED BY <1>2, <1>3

\* What a worker reads of the game and of the newest ballot is a reading.
LEMMA ReadingType ==
  ASSUME WorldTypes
  PROVE  /\ NoReading \in Readings
         /\ Reading(Unwritten, 0, game.score, NoVote) \in Readings
         /\ Reading(game.rotation, game.revision, 0, NoVote) \in Readings
         /\ \A v \in Votes \cup {NoVote} : Reading(Unwritten, 0, 0, v) \in Readings
BY BoundsAssumption DEF NoReading, Reading, Readings, Unwritten, Rounds, Entries,
   Scores, WorldTypes

\* What a ballot is planned on is well typed.
LEMMA SnapshotType ==
  ASSUME WorldTypes, NEW n \in Nat
  PROVE  Snapshot(n) \in Rows
BY DEF Snapshot, Rows, WorldTypes

\* A part of the state that a step leaves alone keeps its type.
LEMMA UnmovedTypes ==
  ASSUME TypeOK
  PROVE  /\ UNCHANGED <<policy, voteState>> => StateTypes'
         /\ UNCHANGED <<planVars, messageId>> => PlanTypes'
         /\ UNCHANGED tallyVars => TallyTypes'
         /\ UNCHANGED <<autoVars, auditVars>> => AutomationTypes'
         /\ UNCHANGED worldVars => WorldTypes'
         /\ UNCHANGED opener => OpenerTypes'
         /\ UNCHANGED workVars => WorkTypes'
         /\ UNCHANGED staffVars => StaffTypes'
         /\ UNCHANGED historyVars => HistoryTypes'
BY DEF TypeOK, StateTypes, PlanTypes, TallyTypes, AutomationTypes, WorldTypes,
   OpenerTypes, WorkTypes, StaffTypes, HistoryTypes, planVars, tallyVars, autoVars,
   auditVars, worldVars, workVars, staffVars, historyVars

\* Releasing, advancing or concluding keeps a worker well typed.
LEMMA WorkStepTypes ==
  ASSUME WorldTypes, WorkTypes, NEW w \in Workers
  PROVE  /\ Release(w) => WorkTypes'
         /\ \A step \in Steps : Go(w, step) => WorkTypes'
         /\ \A step \in Steps, result \in Conclusions :
              Conclude(w, step, result) => WorkTypes'
<1> USE DEF WorkTypes
<1>1. ASSUME Release(w) PROVE WorkTypes'
  BY <1>1, ReadingType DEF Release, Steps, Conclusions
<1>2. ASSUME NEW step \in Steps, Go(w, step) PROVE WorkTypes'
  BY <1>2 DEF Go, AtStep
<1>3. ASSUME NEW step \in Steps, NEW result \in Conclusions, Conclude(w, step, result)
      PROVE  WorkTypes'
  BY <1>3 DEF Conclude
<1> QED BY <1>1, <1>2, <1>3

\* The steps of a publishing handler keep every type.
LEMMA OpenerStepTypes ==
  ASSUME TypeOK, NEW v \in Votes, OpenerStep(v)
  PROVE  TypeOK'
<1> USE DEF TypeOK, dbVars, planVars, tallyVars, autoVars, auditVars, worldVars,
    workVars, staffVars, historyVars, OpenerOnly, WorkerOnly, StateOnly
<1>1. CASE PrepareManual(v)
  <2>1. PlanTypes' BY <1>1, SnapshotType DEF PlanTypes, PrepareManual, Opening
  <2>2. OpenerTypes' BY <1>1 DEF OpenerTypes, PrepareManual, Opening
  <2> QED BY <1>1, <2>1, <2>2, UnmovedTypes DEF PrepareManual, Opening
<1>2. CASE CreateManual(v)
  <2>1. StateTypes'
    BY <1>2 DEF StateTypes, CreateManual, Record, SetState, Opening, VoteStates
  <2>2. PlanTypes'
    BY <1>2 DEF PlanTypes, CreateManual, Record, SetState, Opening, VoteStates
  <2>3. OpenerTypes'
    BY <1>2 DEF OpenerTypes, CreateManual, Record, SetState, Opening, VoteStates
  <2> QED
    BY <1>2, <2>1, <2>2, <2>3, UnmovedTypes DEF CreateManual, Record, SetState,
       Opening, VoteStates
<1>3. CASE RefuseManual(v)
  <2>1. OpenerTypes' BY <1>3 DEF OpenerTypes, RefuseManual, Opening
  <2> QED BY <1>3, <2>1, UnmovedTypes DEF RefuseManual, Opening
<1>4. CASE Published(v)
  <2>1. WorldTypes' BY <1>4 DEF WorldTypes, Published, Publish, Opening
  <2>2. OpenerTypes' BY <1>4 DEF OpenerTypes, Published, Publish, Opening
  <2> QED BY <1>4, <2>1, <2>2, UnmovedTypes DEF Published, Publish, Opening
<1>5. CASE PublishUnconfirmed(v)
  <2>1. WorldTypes' BY <1>5 DEF WorldTypes, PublishUnconfirmed, Publish, Opening
  <2>2. OpenerTypes' BY <1>5 DEF OpenerTypes, PublishUnconfirmed, Publish, Opening
  <2> QED BY <1>5, <2>1, <2>2, UnmovedTypes DEF PublishUnconfirmed, Publish, Opening
<1>6. CASE ConfirmPublished(v)
  <2>1. StateTypes'
    BY <1>6 DEF StateTypes, ConfirmPublished, SetState, Opening, VoteStates
  <2>2. PlanTypes'
    BY <1>6 DEF PlanTypes, ConfirmPublished, SetState, Opening, VoteStates
  <2>3. OpenerTypes'
    BY <1>6 DEF OpenerTypes, ConfirmPublished, SetState, Opening, VoteStates
  <2> QED
    BY <1>6, <2>1, <2>2, <2>3, UnmovedTypes DEF ConfirmPublished, SetState, Opening,
       VoteStates
<1>7. CASE RecheckPolicy(v)
  <2>1. OpenerTypes' BY <1>7 DEF OpenerTypes, RecheckPolicy, Opening
  <2> QED BY <1>7, <2>1, UnmovedTypes DEF RecheckPolicy, Opening
<1>8. CASE RecheckUnreadable(v)
  <2>1. OpenerTypes' BY <1>8 DEF OpenerTypes, RecheckUnreadable, Opening
  <2> QED BY <1>8, <2>1, UnmovedTypes DEF RecheckUnreadable, Opening
<1>9. CASE UndoOpen(v)
  <2>1. StateTypes' BY <1>9 DEF StateTypes, UndoOpen, SetState, Opening, VoteStates
  <2>2. OpenerTypes' BY <1>9 DEF OpenerTypes, UndoOpen, SetState, Opening, VoteStates
  <2> QED BY <1>9, <2>1, <2>2, UnmovedTypes DEF UndoOpen, SetState, Opening, VoteStates
<1>10. CASE FailOpen(v)
  <2>1. StateTypes' BY <1>10 DEF StateTypes, FailOpen, SetState, Opening, VoteStates
  <2>2. OpenerTypes' BY <1>10 DEF OpenerTypes, FailOpen, SetState, Opening, VoteStates
  <2> QED BY <1>10, <2>1, <2>2, UnmovedTypes DEF FailOpen, SetState, Opening, VoteStates
<1>11. CASE CrashOpener(v)
  <2>1. OpenerTypes' BY <1>11 DEF OpenerTypes, CrashOpener, Opening
  <2> QED BY <1>11, <2>1, UnmovedTypes DEF CrashOpener, Opening
<1> QED
  BY <1>1, <1>2, <1>3, <1>4, <1>5, <1>6, <1>7, <1>8, <1>9, <1>10, <1>11 DEF OpenerStep

\* Votes, expiry and a staff close keep every type.
LEMMA VoterStepTypes ==
  ASSUME TypeOK, NEW v \in Votes, VoteStep(v)
  PROVE  TypeOK'
<1> USE DEF TypeOK, dbVars, planVars, tallyVars, autoVars, auditVars, worldVars,
    workVars, staffVars, historyVars, OpenerOnly, WorkerOnly, StateOnly
<1>1. CASE \E u \in Users, c \in Choices : Cast(v, u, c)
  <2>1. TallyTypes' BY <1>1 DEF TallyTypes, Cast
  <2> QED BY <1>1, <2>1, UnmovedTypes DEF Cast
<1>2. CASE Expire(v)
  <2>1. WorldTypes' BY <1>2 DEF WorldTypes, Expire
  <2> QED BY <1>2, <2>1, UnmovedTypes DEF Expire
<1>3. CASE StaffClose(v)
  <2>1. StateTypes' BY <1>3 DEF StateTypes, StaffClose, SetState, VoteStates
  <2>2. HistoryTypes' BY <1>3 DEF HistoryTypes, StaffClose, SetState, VoteStates
  <2> QED BY <1>3, <2>1, <2>2, UnmovedTypes DEF StaffClose, SetState, VoteStates
<1> QED BY <1>1, <1>2, <1>3 DEF VoteStep

\* The newest ballot is a ballot, or there is none.
LEMMA LatestType ==
  ASSUME PlanTypes
  PROVE  Latest \in Votes \cup {NoVote}
BY DEF PlanTypes, Latest

\* A review concludes with one of the known conclusions, or waits.
LEMMA ReviewConclusionType == \A v \in Votes : ReviewConclusion(v) \in Conclusions \cup {"wait"}
BY DEF ReviewConclusion, FromReceipt, Conclusions

\* Claiming a close keeps the types of the states, the counts and the winner.
LEMMA CountTypes ==
  ASSUME TypeOK, NEW v \in Votes, Count(v), UNCHANGED <<policy, ballots>>
  PROVE  /\ StateTypes' /\ TallyTypes'
         /\ heeded' \in [Votes -> SUBSET StaffOps]
<1>1. Tally(v) \in [Choices -> Nat] BY TallyType DEF TypeOK
<1>2. BallotWinner(Tally(v), RuleOf(v)) \in Choices \cup {NoChoice} BY <1>1, WinnerType
<1>3. StateTypes' BY DEF TypeOK, StateTypes, Count, SetState, VoteStates
<1>4. TallyTypes' BY <1>1, <1>2 DEF TypeOK, TallyTypes, Count
<1>5. heeded' \in [Votes -> SUBSET StaffOps]
  BY DEF TypeOK, HistoryTypes, Count, StaffQueues
<1> QED BY <1>3, <1>4, <1>5

\* The steps that take up a ballot keep every type.
LEMMA TickStepTypes ==
  ASSUME TypeOK, NEW w \in Workers, NEW v \in Votes, TickStep(w, v)
  PROVE  TypeOK'
<1> USE DEF TypeOK, dbVars, planVars, tallyVars, autoVars, auditVars, worldVars,
    workVars, staffVars, historyVars, OpenerOnly, WorkerOnly, StateOnly
<1>1. CASE Recover(w, v)
  <2>1. StateTypes' BY <1>1 DEF StateTypes, Recover, SetState, VoteStates
  <2> QED BY <1>1, <2>1, UnmovedTypes DEF Recover, SetState, VoteStates
<1>2. CASE CancelExpired(w, v)
  <2>1. StateTypes' BY <1>2 DEF StateTypes, CancelExpired, SetState, VoteStates
  <2> QED BY <1>2, <2>1, UnmovedTypes DEF CancelExpired, SetState, VoteStates
<1>3. CASE ClaimExpired(w, v)
  <2>1. StateTypes' BY <1>3, CountTypes DEF ClaimExpired
  <2>2. TallyTypes' BY <1>3, CountTypes DEF ClaimExpired
  <2>3. WorkTypes' BY <1>3 DEF WorkTypes, ClaimExpired, Take, Steps
  <2>4. HistoryTypes' BY <1>3, CountTypes DEF HistoryTypes, ClaimExpired
  <2> QED BY <1>3, <2>1, <2>2, <2>3, <2>4, UnmovedTypes DEF ClaimExpired
<1>4. CASE Observe(w, v)
  <2>1. WorkTypes' BY <1>4, ReadingType DEF WorkTypes, Observe, Take, Steps
  <2> QED BY <1>4, <2>1, UnmovedTypes DEF Observe, Take, Steps
<1>5. CASE EvaluateOpen(w, v)
  <2>1. PlanTypes'
    BY <1>5, SnapshotType DEF PlanTypes, EvaluateOpen, Take, Steps, StateTypes
  <2>2. WorkTypes'
    BY <1>5, ReadingType, LatestType DEF WorkTypes, EvaluateOpen, Take, Steps
  <2> QED BY <1>5, <2>1, <2>2, UnmovedTypes DEF EvaluateOpen, Take, Steps
<1>6. CASE ReviewRead(w, v)
  <2>1. WorkTypes' BY <1>6, ReviewConclusionType DEF WorkTypes, ReviewRead, Take, Steps
  <2> QED BY <1>6, <2>1, UnmovedTypes DEF ReviewRead, Take, Steps
<1> QED BY <1>1, <1>2, <1>3, <1>4, <1>5, <1>6 DEF TickStep

\* The steps of openAutomatic keep every type.
LEMMA OpenTickStepTypes ==
  ASSUME TypeOK, Control, NEW w \in Workers, OpenTickStep(w)
  PROVE  TypeOK'
<1> USE DEF TypeOK, dbVars, planVars, tallyVars, autoVars, auditVars, worldVars,
    workVars, staffVars, historyVars, OpenerOnly, WorkerOnly, StateOnly
<1>1. CASE Confirm(w)
  <2>1. WorkTypes' BY <1>1, WorkStepTypes DEF Confirm, Steps
  <2> QED BY <1>1, <2>1, UnmovedTypes DEF Confirm
<1>2. CASE CreateAutomatic(w)
  <2>1. StateTypes'
    BY <1>2 DEF StateTypes, CreateAutomatic, Record, SetState, VoteStates
  <2>2. PlanTypes' BY <1>2 DEF PlanTypes, CreateAutomatic, Control, Sound, Record
  <2>3. OpenerTypes' BY <1>2 DEF OpenerTypes, CreateAutomatic, Record, Opening
  <2>4. WorkTypes' BY <1>2 DEF WorkTypes, CreateAutomatic, AtStep, Steps
  <2> QED BY <1>2, <2>1, <2>2, <2>3, <2>4, UnmovedTypes DEF CreateAutomatic
<1>3. CASE RefuseAutomatic(w)
  <2>1. WorkTypes' BY <1>3, WorkStepTypes DEF RefuseAutomatic
  <2> QED BY <1>3, <2>1, UnmovedTypes DEF RefuseAutomatic
<1>4. CASE EndOpening(w)
  <2>1. WorkTypes' BY <1>4, WorkStepTypes DEF EndOpening
  <2> QED BY <1>4, <2>1, UnmovedTypes DEF EndOpening
<1> QED BY <1>1, <1>2, <1>3, <1>4 DEF OpenTickStep

\* The steps of close, of the observation and of the review keep every type.
LEMMA CloseStepTypes ==
  ASSUME TypeOK, Control, NEW w \in Workers, CloseStep(w)
  PROVE  TypeOK'
<1> USE DEF TypeOK, dbVars, planVars, tallyVars, autoVars, auditVars, worldVars,
    workVars, staffVars, historyVars, OpenerOnly, WorkerOnly, StateOnly
<1>1. CASE CancelObserved(w)
  <2>1. StateTypes' BY <1>1 DEF StateTypes, CancelObserved, SetState, VoteStates
  <2>2. WorkTypes' BY <1>1, WorkStepTypes DEF CancelObserved
  <2> QED BY <1>1, <2>1, <2>2, UnmovedTypes DEF CancelObserved
<1>2. CASE ObserveScore(w)
  <2>1. AutomationTypes' BY <1>2 DEF AutomationTypes, ObserveScore, WorkTypes, Readings
  <2>2. WorkTypes' BY <1>2, WorkStepTypes DEF ObserveScore, Steps
  <2> QED BY <1>2, <2>1, <2>2, UnmovedTypes DEF ObserveScore
<1>3. CASE ClaimAtScore(w)
  <2>1. StateTypes'
    <3>1. CASE Count(cur[w]) /\ Go(w, "close")
      BY <1>3, <3>1, CountTypes DEF ClaimAtScore, Control, Sound
    <3>2. CASE UNCHANGED <<voteState, counts, winner, heeded>>
      BY <1>3, <3>2 DEF StateTypes, ClaimAtScore
    <3> QED BY <1>3, <3>1, <3>2 DEF ClaimAtScore
  <2>2. TallyTypes'
    <3>1. CASE Count(cur[w]) /\ Go(w, "close")
      BY <1>3, <3>1, CountTypes DEF ClaimAtScore, Control, Sound
    <3>2. CASE UNCHANGED <<voteState, counts, winner, heeded>>
      BY <1>3, <3>2 DEF TallyTypes, ClaimAtScore
    <3> QED BY <1>3, <3>1, <3>2 DEF ClaimAtScore
  <2>3. WorkTypes' BY <1>3, WorkStepTypes DEF ClaimAtScore, Steps
  <2>4. HistoryTypes'
    <3>1. CASE Count(cur[w]) /\ Go(w, "close")
      BY <1>3, <3>1, CountTypes DEF ClaimAtScore, Control, Sound, HistoryTypes
    <3>2. CASE UNCHANGED <<voteState, counts, winner, heeded>>
      BY <1>3, <3>2 DEF HistoryTypes, ClaimAtScore
    <3> QED BY <1>3, <3>1, <3>2 DEF ClaimAtScore
  <2> QED BY <1>3, <2>1, <2>2, <2>3, <2>4, UnmovedTypes DEF ClaimAtScore
<1>4. CASE CloseUndecided(w)
  <2>1. WorkTypes' BY <1>4, WorkStepTypes DEF CloseUndecided, Steps, Conclusions
  <2> QED BY <1>4, <2>1, UnmovedTypes DEF CloseUndecided
<1>5. CASE CheckGame(w)
  <2>1. WorkTypes' BY <1>5, ReadingType DEF WorkTypes, CheckGame, AtStep, Steps
  <2> QED BY <1>5, <2>1, UnmovedTypes DEF CheckGame
<1>6. CASE CloseUnsafe(w)
  <2>1. WorkTypes' BY <1>6, WorkStepTypes DEF CloseUnsafe, Steps, Conclusions
  <2> QED BY <1>6, <2>1, UnmovedTypes DEF CloseUnsafe
<1>7. CASE RecheckBallot(w)
  <2>1. WorkTypes' BY <1>7, WorkStepTypes DEF RecheckBallot, Steps, Conclusions
  <2> QED BY <1>7, <2>1, UnmovedTypes DEF RecheckBallot
<1>8. CASE YieldToStaff(w)
  <2>1. WorkTypes' BY <1>8, WorkStepTypes DEF YieldToStaff, Steps, Conclusions
  <2> QED BY <1>8, <2>1, UnmovedTypes DEF YieldToStaff
<1>9. CASE StaffClear(w)
  <2>1. WorkTypes' BY <1>9, WorkStepTypes DEF StaffClear, Steps, Conclusions
  <2> QED BY <1>9, <2>1, UnmovedTypes DEF StaffClear
<1>10. CASE AlreadyNext(w)
  <2>1. WorkTypes' BY <1>10, WorkStepTypes DEF AlreadyNext, Steps, Conclusions
  <2> QED BY <1>10, <2>1, UnmovedTypes DEF AlreadyNext
<1>11. CASE WouldAppend(w)
  <2>1. WorkTypes' BY <1>11, WorkStepTypes DEF WouldAppend, Steps, Conclusions
  <2> QED BY <1>11, <2>1, UnmovedTypes DEF WouldAppend
<1>12. CASE RecordPlan(w)
  <2>1. AutomationTypes' BY <1>12 DEF AutomationTypes, RecordPlan, Control, Sound, Steps
  <2>2. WorkTypes' BY <1>12, WorkStepTypes DEF RecordPlan, Steps
  <2> QED BY <1>12, <2>1, <2>2, UnmovedTypes DEF RecordPlan
<1>13. CASE StartFifty(w)
  <2>1. AutomationTypes' BY <1>13 DEF AutomationTypes, StartFifty, Control, Sound, Steps
  <2>2. WorkTypes' BY <1>13, WorkStepTypes DEF StartFifty, Steps, Conclusions
  <2> QED BY <1>13, <2>1, <2>2, UnmovedTypes DEF StartFifty
<1>14. CASE ReadEvent(w)
  <2>1. WorkTypes' BY <1>14, WorkStepTypes DEF ReadEvent, Steps, Conclusions
  <2> QED BY <1>14, <2>1, UnmovedTypes DEF ReadEvent
<1>15. CASE Finish(w)
  <2>1. StateTypes'
    BY <1>15 DEF StateTypes, Finish, Ending, SetState, VoteStates, Control, Sound
  <2>2. AutomationTypes' BY <1>15 DEF AutomationTypes, Finish
  <2>3. WorkTypes' BY <1>15, WorkStepTypes DEF Finish
  <2> QED BY <1>15, <2>1, <2>2, <2>3, UnmovedTypes DEF Finish
<1>16. CASE Resolve(w)
  <2>1. StateTypes' BY <1>16 DEF StateTypes, Resolve, SetState, VoteStates
  <2>2. PlanTypes' BY <1>16 DEF PlanTypes, Resolve, Control, Sound
  <2>3. AutomationTypes' BY <1>16 DEF AutomationTypes, Resolve
  <2>4. WorkTypes' BY <1>16, WorkStepTypes DEF Resolve
  <2> QED BY <1>16, <2>1, <2>2, <2>3, <2>4, UnmovedTypes DEF Resolve
<1> QED
  BY <1>1, <1>2, <1>3, <1>4, <1>5, <1>6, <1>7, <1>8, <1>9, <1>10, <1>11, <1>12, <1>13,
     <1>14, <1>15, <1>16 DEF CloseStep

\* The steps of the receipt and of the conditional write keep every type.
LEMMA ActStepTypes ==
  ASSUME TypeOK, Control, NEW w \in Workers, ActStep(w)
  PROVE  TypeOK'
<1> USE DEF TypeOK, dbVars, planVars, tallyVars, autoVars, auditVars, worldVars,
    workVars, staffVars, historyVars, OpenerOnly, WorkerOnly, StateOnly
<1>1. CASE BeginReceipt(w)
  <2>1. AutomationTypes' BY <1>1 DEF AutomationTypes, BeginReceipt, Recorded
  <2>2. WorkTypes' BY <1>1 DEF WorkTypes, BeginReceipt, AtStep, Steps
  <2> QED BY <1>1, <2>1, <2>2, UnmovedTypes DEF BeginReceipt
<1>2. CASE BeginRefused(w)
  <2>1. WorkTypes' BY <1>2, WorkStepTypes DEF BeginRefused, Steps, Conclusions
  <2> QED BY <1>2, <2>1, UnmovedTypes DEF BeginRefused
<1>3. CASE SendCheck(w)
  <2>1. WorkTypes' BY <1>3, WorkStepTypes DEF SendCheck, Steps, Conclusions
  <2> QED BY <1>3, <2>1, UnmovedTypes DEF SendCheck
<1>4. CASE PutWinner(w)
  <2>1. WorldTypes'
    BY <1>4 DEF WorldTypes, PutWinner, GameOf, PutEntry, GameOf, Control, Sound,
       PlanTypes, Rows, Entries
  <2>2. WorkTypes' BY <1>4, WorkStepTypes DEF PutWinner, Steps, Conclusions
  <2>3. HistoryTypes'
    BY <1>4 DEF HistoryTypes, PutWinner, PutEntry, Control, Sound, PlanTypes, Rows,
       Entries
  <2> QED BY <1>4, <2>1, <2>2, <2>3, UnmovedTypes DEF PutWinner
<1>5. CASE PutRefused(w)
  <2>1. WorkTypes' BY <1>5, WorkStepTypes DEF PutRefused, Steps, Conclusions
  <2> QED BY <1>5, <2>1, UnmovedTypes DEF PutRefused
<1>6. CASE PutLost(w)
  <2>1. WorkTypes' BY <1>6, WorkStepTypes DEF PutLost, Steps, Conclusions
  <2> QED BY <1>6, <2>1, UnmovedTypes DEF PutLost
<1>7. CASE Settle(w)
  <2>1. AutomationTypes' BY <1>7 DEF AutomationTypes, Settle, Control, Sound
  <2>2. WorkTypes' BY <1>7, WorkStepTypes DEF Settle, Steps, Conclusions, FinalOf
  <2> QED BY <1>7, <2>1, <2>2, UnmovedTypes DEF Settle
<1>8. CASE SettleLost(w)
  <2>1. WorkTypes' BY <1>8, WorkStepTypes DEF SettleLost, Steps, Conclusions
  <2> QED BY <1>8, <2>1, UnmovedTypes DEF SettleLost
<1> QED BY <1>1, <1>2, <1>3, <1>4, <1>5, <1>6, <1>7, <1>8 DEF ActStep

\* The steps of a person's map-next keep every type.
LEMMA StaffStepTypes ==
  ASSUME TypeOK, NEW s \in StaffOps, StaffStep(s)
  PROVE  TypeOK'
<1> USE DEF TypeOK, dbVars, planVars, tallyVars, autoVars, auditVars, worldVars,
    workVars, staffVars, historyVars, OpenerOnly, WorkerOnly, StateOnly
<1>1. CASE QueueBegin(s)
  <2>1. StaffTypes' BY <1>1 DEF StaffTypes, QueueBegin, Existing
  <2> QED BY <1>1, <2>1, UnmovedTypes DEF QueueBegin
<1>2. CASE QueueNotSent(s)
  <2>1. StaffTypes' BY <1>2 DEF StaffTypes, QueueNotSent, QueueEnd
  <2>2. HistoryTypes' BY <1>2 DEF HistoryTypes, QueueNotSent, QueueEnd
  <2>3. WorldTypes' BY <1>2 DEF WorldTypes, QueueNotSent, QueueEnd
  <2> QED BY <1>2, <2>1, <2>2, <2>3, UnmovedTypes DEF QueueNotSent, QueueEnd
<1>3. CASE QueueListen(s)
  <2>1. StateTypes' BY <1>3 DEF StateTypes, QueueListen, VoteStates
  <2>2. StaffTypes' BY <1>3 DEF StaffTypes, QueueListen
  <2>3. HistoryTypes' BY <1>3 DEF HistoryTypes, QueueListen
  <2> QED BY <1>3, <2>1, <2>2, <2>3, UnmovedTypes DEF QueueListen
<1>4. CASE CrashStaff(s)
  <2>1. StaffTypes' BY <1>4 DEF StaffTypes, CrashStaff
  <2> QED BY <1>4, <2>1, UnmovedTypes DEF CrashStaff
<1>5. CASE \E e \in Maps : QueueUnchanged(s, e)
  <2>1. StaffTypes' BY <1>5 DEF StaffTypes, QueueUnchanged, QueueEnd
  <2>2. HistoryTypes' BY <1>5 DEF HistoryTypes, QueueUnchanged, QueueEnd
  <2>3. WorldTypes' BY <1>5 DEF WorldTypes, QueueUnchanged, QueueEnd
  <2> QED BY <1>5, <2>1, <2>2, <2>3, UnmovedTypes DEF QueueUnchanged, QueueEnd
<1>6. CASE \E e \in Maps : QueueChanged(s, e)
  <2>1. StaffTypes' BY <1>6 DEF StaffTypes, QueueChanged, QueueEnd
  <2>2. WorldTypes'
    BY <1>6 DEF WorldTypes, QueueChanged, QueueEnd, GameOf, PutEntry, Entries
  <2>3. HistoryTypes'
    BY <1>6 DEF HistoryTypes, QueueChanged, QueueEnd, PutEntry, WorldTypes, Entries
  <2> QED BY <1>6, <2>1, <2>2, <2>3, UnmovedTypes DEF QueueChanged, QueueEnd
<1> QED BY <1>1, <1>2, <1>3, <1>4, <1>5, <1>6 DEF StaffStep

\* The game and edits of its configuration keep every type.
LEMMA GameStepTypes ==
  ASSUME TypeOK, GameStep
  PROVE  TypeOK'
<1> USE DEF TypeOK, dbVars, planVars, tallyVars, autoVars, auditVars, worldVars,
    workVars, staffVars, historyVars, OpenerOnly, WorkerOnly, StateOnly
<1>1. CASE ScoreRises
  <2>1. WorldTypes' BY <1>1 DEF WorldTypes, ScoreRises, GameOf, Scores, MatchOver
  <2> QED BY <1>1, <2>1, UnmovedTypes DEF ScoreRises
<1>2. CASE NextRound
  <2>1. WorldTypes'
    BY <1>2, BoundsAssumption DEF WorldTypes, NextRound, GameOf, Scores, Rounds
  <2> QED BY <1>2, <2>1, UnmovedTypes DEF NextRound
<1>3. CASE SettingsSave
  <2>1. WorldTypes' BY <1>3 DEF WorldTypes, SettingsSave, GameOf
  <2> QED BY <1>3, <2>1, UnmovedTypes DEF SettingsSave
<1>4. CASE \E e \in Entries : RotationSave(e)
  <2>1. WorldTypes' BY <1>4 DEF WorldTypes, RotationSave, GameOf, PutEntry
  <2>2. HistoryTypes' BY <1>4 DEF HistoryTypes, RotationSave, PutEntry, WorldTypes
  <2> QED BY <1>4, <2>1, <2>2, UnmovedTypes DEF RotationSave
<1> QED BY <1>1, <1>2, <1>3, <1>4 DEF GameStep

\* Saving the voting controls keeps every type.
LEMMA PolicyTypes ==
  ASSUME TypeOK, NEW on \in BOOLEAN, SavePolicy(on)
  PROVE  TypeOK'
<1> USE DEF TypeOK, dbVars, planVars, tallyVars, autoVars, auditVars, worldVars,
    workVars, staffVars, historyVars
<1>1. StateTypes' BY DEF StateTypes, SavePolicy, VoteStates, CloseAutomatic
<1> QED BY <1>1, UnmovedTypes DEF SavePolicy

\* A process that stops keeps every type.
LEMMA CrashTypes ==
  ASSUME TypeOK, NEW w \in Workers, CrashWorker(w)
  PROVE  TypeOK'
<1> USE DEF TypeOK, dbVars, planVars, tallyVars, autoVars, auditVars, worldVars,
    workVars, staffVars, historyVars
<1>1. OpenerTypes' BY DEF OpenerTypes, CrashWorker
<1>2. WorkTypes' BY WorkStepTypes DEF CrashWorker
<1> QED BY <1>1, <1>2, UnmovedTypes DEF CrashWorker

PromiseStep == [Promise!Next]_(Promise!vars)
Unseen == UNCHANGED <<voteState, ballots, winner>>

-------------------------------------------------------------------------------
(* Every step is a step of BallotPromise or a stutter.                       *)

\* A step that moves no ballot, choice or winner stutters in BallotPromise.
LEMMA UnseenStep == Unseen => PromiseStep
BY DEF Unseen, PromiseStep, Promise!vars

\* Each change of one ballot's state that the store allows is a BallotPromise step.
LEMMA StateStep ==
  ASSUME StateTypes, NEW v \in Votes, NEW s \in VoteStates, SetState(v, s),
         UNCHANGED <<ballots, winner>>,
         \/ voteState[v] = "publishing" /\ s \in {"open", "needs_review"}
         \/ voteState[v] = "open" /\ s = "cancelled"
         \/ voteState[v] = "closing" /\ s = "needs_review"
         \/ /\ voteState[v] \in {"closing", "needs_review"} /\ s \in FinalStates
            /\ s = "queued" => winner[v] # NoChoice
            /\ s \in {"tied", "no_votes"} =>
                 winner[v] = NoChoice /\ voteState[v] = "closing"
  PROVE  PromiseStep
<1> USE DEF PromiseStep, Promise!Next, Promise!Become, SetState
<1>1. CASE voteState[v] = "publishing" /\ s = "open" BY <1>1 DEF Promise!Open
<1>2. CASE voteState[v] \in {"publishing", "closing"} /\ s = "needs_review"
  BY <1>2 DEF Promise!Doubt
<1>3. CASE voteState[v] = "open" /\ s = "cancelled" BY <1>3 DEF Promise!Withdraw
<1>4. CASE /\ voteState[v] \in {"closing", "needs_review"} /\ s \in FinalStates
           /\ s = "queued" => winner[v] # NoChoice
           /\ s \in {"tied", "no_votes"} =>
                winner[v] = NoChoice /\ voteState[v] = "closing"
  <2>1. s \in Promise!Results
    BY <1>4 DEF FinalStates, VoteStates, ActiveStates, Promise!Results
  <2> QED BY <1>4, <2>1 DEF Promise!Conclude
<1> QED BY <1>1, <1>2, <1>3, <1>4

\* The insert under the unique index is the Create of BallotPromise.
LEMMA RecordStep ==
  ASSUME StateTypes, NEW v \in Votes, voteState[v] = "none", Record(v),
         UNCHANGED <<ballots, winner>>
  PROVE  PromiseStep
<1>1. Promise!Unfinished = {}
  BY DEF Record, Active, ActiveStates, StateTypes, VoteStates, Promise!Unfinished,
     Promise!Results
<1> QED
  BY <1>1 DEF Record, SetState, PromiseStep, Promise!Next, Promise!Create,
     Promise!Become

\* Cardinality means the same in the instance as here.
LEMMA SameCardinality == ASSUME NEW S PROVE Promise!Cardinality(S) = Cardinality(S)
BY DEF Promise!Cardinality, Cardinality

\* The winner ballotWinner picks is one the abstract promise allows.
LEMMA WinnerMayWin ==
  ASSUME TallyTypes, NEW v \in Votes, NEW rule
  PROVE  Promise!MayWin(v, BallotWinner(Tally(v), rule))
<1> DEFINE t == Tally(v)
<1>1. \A c \in Choices : /\ t[c] = Cardinality(Voters(v, c))
                         /\ t[c] \in Nat
                         /\ t[c] > 0 <=> Voters(v, c) # {}
  BY TallyType, FS_EmptySet, FS_CardinalityType DEF Tally
<1>2. \A c \in Choices : Promise!VotersOf(v, c) = Voters(v, c)
  BY DEF Promise!VotersOf, Voters
<1>3. \A c \in Choices : Promise!Leads(v, c) <=> c \in Leaders(t)
  <2> TAKE c \in Choices
  <2>1. Promise!Leads(v, c) <=> t[c] > 0 /\ \A d \in Choices : t[d] <= t[c]
    <3> HIDE DEF t
    <3>1. \A d \in Choices : Promise!Cardinality(Promise!VotersOf(v, d)) = t[d]
      BY <1>1, <1>2, SameCardinality
    <3>2. Promise!VotersOf(v, c) # {} <=> t[c] > 0 BY <1>1, <1>2
    <3> QED BY <3>1, <3>2 DEF Promise!Leads
  <2>2. c \in Leaders(t) <=> t[c] > 0 /\ \A d \in Choices : t[d] <= t[c]
    BY DEF Leaders
  <2> QED BY <2>1, <2>2
<1>4. Leaders(t) \subseteq Choices BY DEF Leaders
<1>5. \A c \in Choices : Promise!LeadsAlone(v, c) <=> Leaders(t) = {c}
  BY <1>3, <1>4 DEF Promise!LeadsAlone
<1>6. CASE \E c \in Choices : Leaders(t) = {c}
  <2>1. PICK c \in Choices : Leaders(t) = {c} BY <1>6
  <2>2. BallotWinner(t, rule) \in Choices /\ Leaders(t) = {BallotWinner(t, rule)}
    BY <2>1 DEF BallotWinner
  <2> QED BY <2>2, <1>5, <1>6 DEF Promise!MayWin
<1>7. CASE ~\E c \in Choices : Leaders(t) = {c}
  <2>1. BallotWinner(t, rule) = NoChoice \/ BallotWinner(t,
     rule) \in Leaders(t) \cap Maps
    BY <1>7 DEF BallotWinner
  <2>2. \A c \in Leaders(t) \cap Maps : c \in Choices \ {Fifty} /\ Promise!Leads(v, c)
    BY <1>3, <1>4, VotesAssumption
  <2> QED BY <2>1, <2>2, <1>5, <1>7 DEF Promise!MayWin
<1> QED BY <1>6, <1>7

\* Claiming a close is the Count of BallotPromise.
LEMMA CountStep ==
  ASSUME TypeOK, NEW v \in Votes, Count(v), UNCHANGED ballots
  PROVE  PromiseStep
<1>1. Promise!MayWin(v, BallotWinner(Tally(v), RuleOf(v))) BY WinnerMayWin DEF TypeOK
<1>2. BallotWinner(Tally(v), RuleOf(v)) \in Choices \cup {NoChoice}
  BY TallyType, WinnerType DEF TypeOK
<1> QED
  BY <1>1, <1>2 DEF Count, SetState, PromiseStep, Promise!Next, Promise!Count,
     Promise!Become

\* Every step of a publishing handler is a BallotPromise step.
LEMMA OpenerPromise ==
  ASSUME TypeOK, Control, NEW v \in Votes, OpenerStep(v)
  PROVE  PromiseStep
<1> USE DEF dbVars, planVars, tallyVars, autoVars, auditVars, worldVars, workVars,
    staffVars, historyVars, OpenerOnly, WorkerOnly, StateOnly
<1>1. CASE PrepareManual(v) \/ RefuseManual(v) \/ Published(v)
   \/ PublishUnconfirmed(v) \/ RecheckPolicy(v) \/ RecheckUnreadable(v)
   \/ CrashOpener(v)
  BY <1>1, UnseenStep DEF PrepareManual, RefuseManual, Published, PublishUnconfirmed,
     Publish, RecheckPolicy, RecheckUnreadable, CrashOpener, Unseen
<1>2. CASE CreateManual(v)
  BY <1>2, RecordStep DEF TypeOK, Control, FreshManual, CreateManual
<1>3. CASE ConfirmPublished(v)
  BY <1>3, StateStep, UnseenStep DEF TypeOK, ConfirmPublished, VoteStates, Unseen
<1>4. CASE UndoOpen(v)
  BY <1>4, StateStep, UnseenStep DEF TypeOK, UndoOpen, Cancellable, VoteStates,
     FinalStates, ActiveStates, Unseen
<1>5. CASE FailOpen(v)
  BY <1>5, StateStep, UnseenStep DEF TypeOK, FailOpen, Finishable, VoteStates, Unseen
<1> QED BY <1>1, <1>2, <1>3, <1>4, <1>5 DEF OpenerStep

\* A vote, an expiry and a staff close are BallotPromise steps.
LEMMA VoterPromise ==
  ASSUME TypeOK, Control, NEW v \in Votes, VoteStep(v)
  PROVE  PromiseStep
<1> USE DEF dbVars, planVars, tallyVars, autoVars, auditVars, worldVars, workVars,
    staffVars, historyVars, OpenerOnly, WorkerOnly, StateOnly
<1>1. CASE \E u \in Users, c \in Choices : Cast(v, u, c)
  BY <1>1 DEF Cast, TakesVotes, PromiseStep, Promise!Next, Promise!Vote
<1>2. CASE Expire(v) BY <1>2, UnseenStep DEF Expire, Unseen
<1>3. CASE StaffClose(v)
  BY <1>3, StateStep DEF TypeOK, StaffClose, Cancellable, VoteStates, FinalStates,
     ActiveStates
<1> QED BY <1>1, <1>2, <1>3 DEF VoteStep

\* Recovery, expiry and the taking up of a ballot are BallotPromise steps.
LEMMA TickPromise ==
  ASSUME TypeOK, Control, NEW w \in Workers, NEW v \in Votes, TickStep(w, v)
  PROVE  PromiseStep
<1> USE DEF dbVars, planVars, tallyVars, autoVars, auditVars, worldVars, workVars,
    staffVars, historyVars, OpenerOnly, WorkerOnly, StateOnly
<1>1. CASE Recover(w, v)
  BY <1>1, StateStep DEF TypeOK, Recover, Interrupted, VoteStates
<1>2. CASE CancelExpired(w, v) BY <1>2, StateStep DEF TypeOK, CancelExpired, VoteStates
<1>3. CASE ClaimExpired(w, v) BY <1>3, CountStep DEF ClaimExpired
<1>4. CASE Observe(w, v) \/ EvaluateOpen(w, v) \/ ReviewRead(w, v)
  BY <1>4, UnseenStep DEF Observe, EvaluateOpen, ReviewRead, Unseen
<1> QED BY <1>1, <1>2, <1>3, <1>4 DEF TickStep

\* Every step of openAutomatic is a BallotPromise step.
LEMMA OpenTickPromise ==
  ASSUME TypeOK, Control, NEW w \in Workers, OpenTickStep(w)
  PROVE  PromiseStep
<1> USE DEF dbVars, planVars, tallyVars, autoVars, auditVars, worldVars, workVars,
    staffVars, historyVars, OpenerOnly, WorkerOnly, StateOnly
<1>1. CASE CreateAutomatic(w)
  BY <1>1, RecordStep DEF TypeOK, Control, Sound, FreshAuto, CreateAutomatic
<1>2. CASE Confirm(w) \/ RefuseAutomatic(w) \/ EndOpening(w)
  BY <1>2, UnseenStep DEF Confirm, RefuseAutomatic, EndOpening, Unseen
<1> QED BY <1>1, <1>2 DEF OpenTickStep

\* Every step of close, observation and review is a BallotPromise step.
LEMMA ClosePromise ==
  ASSUME TypeOK, Control, NEW w \in Workers, CloseStep(w)
  PROVE  PromiseStep
<1> USE DEF dbVars, planVars, tallyVars, autoVars, auditVars, worldVars, workVars,
    staffVars, historyVars, OpenerOnly, WorkerOnly, StateOnly
<1>1. CASE CancelObserved(w)
  BY <1>1, StateStep, UnseenStep DEF TypeOK, Control, Sound, CancelObserved,
     Cancellable, VoteStates, FinalStates, ActiveStates, Unseen
<1>2. CASE ClaimAtScore(w)
  BY <1>2, CountStep, UnseenStep DEF Control, Sound, ClaimAtScore, Unseen
<1>3. CASE Finish(w)
  <2> DEFINE v == cur[w]
  <2>1. CASE Finishable(v)
    <3>1. v \in Votes /\ voteState[v] = "closing"
      BY <1>3, <2>1 DEF Control, Sound, Finish, Finishable, CloseSteps, PastOpen,
         FinalStates, ActiveStates
    <3> QED
      BY <1>3, <2>1, <3>1, StateStep DEF TypeOK, Control, Sound, Finish, Ending,
         VoteStates, FinalStates, ActiveStates
  <2>2. CASE ~Finishable(v) BY <1>3, <2>2, UnseenStep DEF Finish, Unseen
  <2> QED BY <2>1, <2>2
<1>4. CASE Resolve(w)
  <2> DEFINE v == cur[w]
  <2>1. CASE voteState[v] = "needs_review"
    BY <1>4, <2>1, StateStep DEF TypeOK, Control, Sound, Resolve, VoteStates,
       FinalStates, ActiveStates
  <2>2. CASE voteState[v] # "needs_review" BY <1>4, <2>2, UnseenStep DEF Resolve, Unseen
  <2> QED BY <2>1, <2>2
<1>5. CASE ObserveScore(w) \/ CloseUndecided(w) \/ CheckGame(w) \/ CloseUnsafe(w)
   \/ RecheckBallot(w) \/ YieldToStaff(w)
  BY <1>5, UnseenStep DEF ObserveScore, CloseUndecided, CheckGame, CloseUnsafe,
     RecheckBallot, YieldToStaff, Unseen
<1>6. CASE StaffClear(w) \/ AlreadyNext(w) \/ WouldAppend(w) \/ RecordPlan(w)
   \/ StartFifty(w) \/ ReadEvent(w)
  BY <1>6, UnseenStep DEF StaffClear, AlreadyNext, WouldAppend, RecordPlan,
     StartFifty, ReadEvent, Unseen
<1> QED BY <1>1, <1>2, <1>3, <1>4, <1>5, <1>6 DEF CloseStep

\* The receipt and the write stutter in BallotPromise.
LEMMA ActPromise ==
  ASSUME TypeOK, Control, NEW w \in Workers, ActStep(w)
  PROVE  PromiseStep
<1> USE DEF dbVars, planVars, tallyVars, autoVars, auditVars, worldVars, workVars,
    staffVars, historyVars, OpenerOnly, WorkerOnly, StateOnly
<1>1. CASE BeginReceipt(w) \/ BeginRefused(w) \/ SendCheck(w) \/ PutWinner(w)
   \/ PutRefused(w) \/ PutLost(w) \/ Settle(w) \/ SettleLost(w)
  BY <1>1, UnseenStep DEF BeginReceipt, BeginRefused, SendCheck, PutWinner,
     PutRefused, PutLost, Settle, SettleLost, Unseen
<1> QED BY <1>1 DEF ActStep

\* With one active ballot at most one is open, so closing all of them closes one.
LEMMA OnlyOpen ==
  ASSUME OneActive, NEW v \in Votes, voteState[v] = "open"
  PROVE  \A x \in Votes : voteState[x] = "open" => x = v
BY DEF OneActive, Active, ActiveStates

\* A person's map-next, whose listener closes open ballots, is a BallotPromise step.
LEMMA StaffPromise ==
  ASSUME IInv, NEW s \in StaffOps, StaffStep(s)
  PROVE  PromiseStep
<1> USE DEF dbVars, planVars, tallyVars, autoVars, auditVars, worldVars, workVars,
    staffVars, historyVars, OpenerOnly, WorkerOnly, StateOnly, IInv
<1>1. CASE QueueListen(s)
  <2>1. CASE \E v \in Votes : voteState[v] = "open"
    <3>1. PICK v \in Votes : voteState[v] = "open" BY <2>1
    <3>0. \A x \in Votes : voteState[x] = "open" => x = v BY <3>1, OnlyOpen DEF IInv
    <3>2. SetState(v, "cancelled")
      BY <1>1, <3>0, <3>1 DEF QueueListen, TypeOK, StateTypes, SetState
    <3> QED BY <1>1, <3>1, <3>2, StateStep DEF TypeOK, QueueListen, VoteStates
  <2>2. CASE \A v \in Votes : voteState[v] # "open"
    BY <1>1, <2>2, UnseenStep DEF QueueListen, Unseen, TypeOK, StateTypes
  <2> QED BY <2>1, <2>2
<1>2. CASE QueueBegin(s) \/ QueueNotSent(s) \/ CrashStaff(s)
  BY <1>2, UnseenStep DEF QueueBegin, QueueNotSent, QueueEnd, CrashStaff, Unseen
<1>3. CASE \E e \in Maps : QueueUnchanged(s, e) \/ QueueChanged(s, e)
  BY <1>3, UnseenStep DEF QueueUnchanged, QueueChanged, QueueEnd, Unseen
<1> QED BY <1>1, <1>2, <1>3 DEF StaffStep

\* Switching automatic voting off withdraws at most one ballot.
LEMMA PolicyPromise ==
  ASSUME IInv, NEW on \in BOOLEAN, SavePolicy(on)
  PROVE  PromiseStep
<1> USE DEF dbVars, planVars, tallyVars, autoVars, auditVars, worldVars, workVars,
    staffVars, historyVars, OpenerOnly, WorkerOnly, StateOnly, IInv
<1>1. CASE voteState' = voteState BY <1>1, UnseenStep DEF SavePolicy, Unseen
<1>2. CASE CloseAutomatic /\ \A v \in Votes : v \in Automatic => voteState[v] # "open"
  <2>1. \A v \in Votes : voteState'[v] = voteState[v] BY <1>2 DEF CloseAutomatic
  <2>2. voteState' = voteState BY <1>2, <2>1 DEF CloseAutomatic, TypeOK, StateTypes
  <2> QED BY <2>2, UnseenStep DEF SavePolicy, Unseen
<1>3. CASE CloseAutomatic /\ \E v \in Votes : v \in Automatic /\ voteState[v] = "open"
  <2>2. PICK v \in Votes : v \in Automatic /\ voteState[v] = "open"
    BY <1>3
  <2>3. \A x \in Votes : voteState[x] = "open" => x = v
    BY <2>2, OnlyOpen DEF IInv
  <2>4. SetState(v, "cancelled")
    BY <1>3, <2>2, <2>3 DEF CloseAutomatic, TypeOK, StateTypes, SetState
  <2> QED BY <2>2, <2>4, StateStep DEF TypeOK, SavePolicy, VoteStates
<1> QED BY <1>1, <1>2, <1>3 DEF SavePolicy

\* The game, other edits and stopping processes stutter in BallotPromise.
LEMMA WorldPromise ==
  ASSUME TypeOK, Control, NEW w \in Workers, GameStep \/ CrashWorker(w)
  PROVE  PromiseStep
<1> USE DEF dbVars, planVars, tallyVars, autoVars, auditVars, worldVars, workVars,
    staffVars, historyVars, OpenerOnly, WorkerOnly, StateOnly
<1>1. CASE GameStep
  BY <1>1, UnseenStep DEF GameStep, ScoreRises, NextRound, SettingsSave, RotationSave,
     Unseen
<1>2. CASE CrashWorker(w) BY <1>2, UnseenStep DEF CrashWorker, Unseen
<1> QED BY <1>1, <1>2

Moved == \A v \in Votes :
  \/ voteState'[v] = voteState[v]
  \/ voteState[v] = "none" /\ voteState'[v] = "publishing"
  \/ voteState[v] = "publishing" /\ voteState'[v] = "open"
  \/ voteState[v] \in ActiveStates /\ voteState'[v] \in PastOpen
WinnerMoved == \A v \in Votes :
  \/ winner'[v] = winner[v]
  \/ voteState[v] = "open" /\ voteState'[v] = "closing"

-------------------------------------------------------------------------------
(* The control invariant: what the handlers know of the ballots they hold.    *)

\* A move of one ballot along an edge of the promise is a move of all.
LEMMA BecomeMoves ==
  ASSUME StateTypes, NEW b \in Votes, NEW from, NEW s, Promise!Become(b, from, s),
         \/ from = {"none"} /\ s = "publishing"
         \/ from = {"publishing"} /\ s = "open"
         \/ from \subseteq ActiveStates /\ s \in PastOpen
  PROVE  Moved
<1>1. voteState[b] \in from /\ voteState' = [voteState EXCEPT ![b] = s]
  BY DEF Promise!Become
<1>2. \A v \in Votes : voteState'[v] = IF v = b THEN s ELSE voteState[v]
  BY <1>1 DEF StateTypes
<1> QED BY <1>1, <1>2 DEF Moved

\* A BallotPromise step moves states and winners along these edges only.
LEMMA PromiseMoves ==
  ASSUME TypeOK, PromiseStep
  PROVE  Moved /\ WinnerMoved
<1> USE DEF TypeOK
<1>1. CASE UNCHANGED <<voteState, winner>> BY <1>1 DEF Moved, WinnerMoved
<1>2. ASSUME NEW b \in Votes, NEW from, NEW s, Promise!Become(b, from, s),
   UNCHANGED winner,
             \/ from = {"none"} /\ s = "publishing"
             \/ from = {"publishing"} /\ s = "open"
             \/ from \subseteq ActiveStates /\ s \in PastOpen
      PROVE  Moved /\ WinnerMoved
  BY <1>2, BecomeMoves DEF WinnerMoved
<1>3. ASSUME NEW b \in Votes, Promise!Count(b) PROVE Moved /\ WinnerMoved
  <2>1. Promise!Become(b, {"open"}, "closing") BY <1>3 DEF Promise!Count
  <2>2. Moved BY <2>1, BecomeMoves DEF ActiveStates, PastOpen
  <2>3. WinnerMoved
    <3>1. voteState[b] = "open" /\ voteState'[b] = "closing"
      BY <2>1 DEF Promise!Become, StateTypes
    <3>2. \A v \in Votes : v # b => winner'[v] = winner[v]
      BY <1>3 DEF Promise!Count, TallyTypes
    <3> QED BY <3>1, <3>2 DEF WinnerMoved
  <2> QED BY <2>2, <2>3
<1>4. ASSUME NEW b \in Votes, NEW r \in Promise!Results, Promise!Conclude(b, r)
      PROVE  Moved /\ WinnerMoved
  <2>1. {"closing", "needs_review"} \subseteq ActiveStates /\ r \in PastOpen
    BY DEF Promise!Results, ActiveStates, PastOpen, FinalStates, VoteStates
  <2> QED BY <1>2, <1>4, <2>1 DEF Promise!Conclude
<1>5. ASSUME NEW b \in Votes,
   Promise!Create(b) \/ Promise!Open(b) PROVE Moved /\ WinnerMoved
  BY <1>2, <1>5 DEF Promise!Create, Promise!Open
<1>6. ASSUME NEW b \in Votes,
   Promise!Doubt(b) \/ Promise!Withdraw(b) PROVE Moved /\ WinnerMoved
  <2>1. /\ {"publishing", "closing"} \subseteq ActiveStates
        /\ {"open"} \subseteq ActiveStates
        /\ "needs_review" \in PastOpen /\ "cancelled" \in PastOpen
    BY DEF ActiveStates, PastOpen, FinalStates, VoteStates
  <2> QED BY <1>2, <1>6, <2>1 DEF Promise!Doubt, Promise!Withdraw
<1>7. ASSUME NEW b \in Votes, NEW u \in Users, NEW c \in Choices, Promise!Vote(b, u, c)
      PROVE  Moved /\ WinnerMoved
  BY <1>1, <1>7 DEF Promise!Vote
<1>8. CASE UNCHANGED Promise!vars BY <1>1, <1>8 DEF Promise!vars
<1> QED BY <1>3, <1>4, <1>5, <1>6, <1>7, <1>8 DEF PromiseStep, Promise!Next

\* What a worker knows of its ballot survives the steps of everyone else.
LEMMA KeepsSound ==
  ASSUME TypeOK, Control, Moved, WinnerMoved, NEW w \in Workers,
         pc'[w] = pc[w], cur'[w] = cur[w], conclusion'[w] = conclusion[w]
  PROVE  Sound(w)'
<1>1. Sound(w) BY DEF Control
<1>2. pc[w] \in CloseSteps =>
        voteState'[cur[w]] \in PastOpen /\ winner'[cur[w]] = winner[cur[w]]
  BY <1>1 DEF Sound, Moved, WinnerMoved, CloseSteps, PastOpen, FinalStates,
     VoteStates, ActiveStates
<1> QED BY <1>1, <1>2 DEF Sound, CloseSteps

\* No winner before the close was claimed, and no plan or receipt without one.
LEMMA KeepsWinner ==
  ASSUME TypeOK, Control, Moved, WinnerMoved
  PROVE  /\ WinnerPast'
         /\ UNCHANGED <<queue, receipt>> => HasWinner'
<1>1. WinnerPast' BY DEF Control, WinnerPast, Moved, WinnerMoved, PastOpen,
    FinalStates, VoteStates, ActiveStates
<1>2. ASSUME UNCHANGED <<queue, receipt>> PROVE HasWinner'
  <2>1. \A v \in Votes : winner[v] # NoChoice => winner'[v] = winner[v]
    BY DEF Control, WinnerPast, WinnerMoved, PastOpen, FinalStates, VoteStates,
       ActiveStates
  <2> QED BY <1>2, <2>1 DEF Control, HasWinner
<1> QED BY <1>1, <1>2

\* The steps of a publishing handler keep the control invariant.
LEMMA OpenerControl ==
  ASSUME IInv, NEW v \in Votes, OpenerStep(v)
  PROVE  Control'
<1> USE DEF IInv
<1>1. Moved /\ WinnerMoved BY OpenerPromise, PromiseMoves
<1>2. UNCHANGED <<workVars, queue, receipt>>
  BY DEF OpenerStep, PrepareManual, CreateManual, RefuseManual, Published,
     PublishUnconfirmed, ConfirmPublished, RecheckPolicy, RecheckUnreadable, UndoOpen,
     FailOpen, CrashOpener, Publish, OpenerOnly, dbVars, autoVars, auditVars
<1>3. /\ \A w \in Workers : Sound(w)'
      /\ WinnerPast' /\ HasWinner'
  BY <1>1, <1>2, KeepsSound, KeepsWinner DEF workVars
<1>4. \A x \in Votes : x # v => voteState'[x] = voteState[x] /\ opener'[x] = opener[x]
  BY DEF OpenerStep, PrepareManual, CreateManual, RefuseManual, Published,
     PublishUnconfirmed, ConfirmPublished, RecheckPolicy, RecheckUnreadable, UndoOpen,
     FailOpen, CrashOpener, Publish, OpenerOnly, Record, SetState, Opening, TypeOK,
     StateTypes, OpenerTypes
<1>5. voteState[v] = "none" /\ voteState'[v] # "none" => opener[v] = "create" /\ v \in Manual /\ opener'[v] = "publish"
  BY DEF OpenerStep, PrepareManual, CreateManual, RefuseManual, Published,
     PublishUnconfirmed, ConfirmPublished, RecheckPolicy, RecheckUnreadable, UndoOpen,
     FailOpen, CrashOpener, Publish, OpenerOnly, Record, SetState, Opening, TypeOK,
     StateTypes, OpenerTypes, Cancellable, Finishable
<1>6. opener'[v] = "create" => v \in Manual /\ voteState'[v] = "none"
  BY DEF OpenerStep, PrepareManual, CreateManual, RefuseManual, Published,
     PublishUnconfirmed, ConfirmPublished, RecheckPolicy, RecheckUnreadable, UndoOpen,
     FailOpen, CrashOpener, Publish, OpenerOnly, Record, SetState, Opening, TypeOK,
     StateTypes, OpenerTypes
<1>7. FreshManual' BY <1>4, <1>6 DEF FreshManual, Control
<1>8. FreshAuto'
  BY <1>2, <1>4, <1>5, VotesAssumption DEF FreshAuto, Control, workVars, Votes
<1> QED BY <1>3, <1>7, <1>8 DEF Control

\* Taking up a ballot leaves the worker sound.
LEMMA TickSound ==
  ASSUME IInv, Moved, WinnerMoved, NEW w \in Workers, NEW v \in Votes, TickStep(w, v)
  PROVE  Sound(w)'
<1> USE DEF dbVars, planVars, tallyVars, autoVars, auditVars, worldVars, workVars,
    staffVars, historyVars, OpenerOnly, WorkerOnly, StateOnly, IInv
<1>1. CASE Recover(w, v) \/ CancelExpired(w, v)
  BY <1>1, KeepsSound DEF Recover, CancelExpired
<1>2. CASE ClaimExpired(w, v)
  BY <1>2 DEF ClaimExpired, Take, Count, SetState, PastOpen, StateTypes, TypeOK,
     WorkTypes, Sound, CloseSteps
<1>3. CASE Observe(w, v)
  BY <1>3 DEF Observe, Take, TypeOK, WorkTypes, Sound, CloseSteps
<1>4. CASE EvaluateOpen(w, v)
  BY <1>4 DEF EvaluateOpen, Take, TypeOK, WorkTypes, Sound, CloseSteps
<1>5. CASE ReviewRead(w, v)
  <2>1. voteState'[v] \in PastOpen /\ winner'[v] = winner[v]
    BY <1>5 DEF ReviewRead, InReview, PastOpen
  <2>2. ReviewConclusion(v) = "queued" => winner[v] # NoChoice
    BY VotesAssumption DEF ReviewConclusion, FromReceipt, Control, HasWinner
  <2> QED BY <1>5, <2>1, <2>2 DEF ReviewRead, Take, TypeOK, WorkTypes, Sound, CloseSteps
<1> QED BY <1>1, <1>2, <1>3, <1>4, <1>5 DEF TickStep

\* The steps of openAutomatic leave the worker sound.
LEMMA OpenTickSound ==
  ASSUME IInv, Moved, WinnerMoved, NEW w \in Workers, OpenTickStep(w)
  PROVE  Sound(w)'
<1> USE DEF dbVars, planVars, tallyVars, autoVars, auditVars, worldVars, workVars,
    staffVars, historyVars, OpenerOnly, WorkerOnly, StateOnly, IInv
<1>1. CASE Confirm(w)
  BY <1>1 DEF Confirm, Go, AtStep, Release, Control, TypeOK, WorkTypes, Sound,
     CloseSteps
<1>2. CASE CreateAutomatic(w)
  BY <1>2 DEF CreateAutomatic, AtStep, Control, TypeOK, WorkTypes, Sound, CloseSteps
<1>3. CASE RefuseAutomatic(w) \/ EndOpening(w)
  BY <1>3 DEF RefuseAutomatic, EndOpening, Release, TypeOK, WorkTypes, Sound, CloseSteps
<1> QED BY <1>1, <1>2, <1>3 DEF OpenTickStep

\* The steps of close, observation and review leave the worker sound.
LEMMA CloseSound ==
  ASSUME IInv, Moved, WinnerMoved, NEW w \in Workers, CloseStep(w)
  PROVE  Sound(w)'
<1> USE DEF dbVars, planVars, tallyVars, autoVars, auditVars, worldVars, workVars,
    staffVars, historyVars, OpenerOnly, WorkerOnly, StateOnly, IInv
<1>1. CASE CancelObserved(w) \/ Finish(w) \/ Resolve(w)
  BY <1>1 DEF CancelObserved, Finish, Resolve, Release, TypeOK, WorkTypes, Sound,
     CloseSteps
<1>2. CASE ObserveScore(w)
  BY <1>2 DEF ObserveScore, Go, AtStep, Conclude, Release, Control, TypeOK, WorkTypes,
     Sound, CloseSteps
<1>3. CASE ClaimAtScore(w)
  BY <1>3 DEF ClaimAtScore, Count, SetState, Go, AtStep, Release, PastOpen,
     StateTypes, Control, TypeOK, WorkTypes, Sound, CloseSteps
<1>4. CASE CloseUndecided(w)
  BY <1>4 DEF CloseUndecided, Go, AtStep, Conclude, Release, Control, TypeOK,
     WorkTypes, Sound, CloseSteps
<1>5. CASE CheckGame(w)
  BY <1>5 DEF CheckGame, Go, AtStep, Conclude, Release, Control, TypeOK, WorkTypes,
     Sound, CloseSteps
<1>6. CASE CloseUnsafe(w)
  BY <1>6 DEF CloseUnsafe, Go, AtStep, Conclude, Release, Control, TypeOK, WorkTypes,
     Sound, CloseSteps
<1>7. CASE RecheckBallot(w)
  BY <1>7 DEF RecheckBallot, Go, AtStep, Conclude, Release, Control, TypeOK,
     WorkTypes, Sound, CloseSteps
<1>8. CASE YieldToStaff(w)
  BY <1>8 DEF YieldToStaff, Go, AtStep, Conclude, Release, Control, TypeOK, WorkTypes,
     Sound, CloseSteps
<1>9. CASE StaffClear(w)
  <2>1. winner[cur[w]] \in Choices \ {NoChoice}
    BY <1>9 DEF StaffClear, TallyTypes, Control, TypeOK, WorkTypes, Sound, CloseSteps
  <2> QED
    BY <1>9, <2>1 DEF StaffClear, Go, AtStep, Choices, Control, TypeOK, WorkTypes,
       Sound, CloseSteps
<1>10. CASE AlreadyNext(w)
  <2>1. winner[cur[w]] # NoChoice
    BY <1>10, VotesAssumption DEF AlreadyNext, Control, TypeOK, WorkTypes, Sound,
       CloseSteps
  <2> QED
    BY <1>10, <2>1 DEF AlreadyNext, Conclude, Control, TypeOK, WorkTypes, Sound,
       CloseSteps
<1>11. CASE WouldAppend(w)
  BY <1>11 DEF WouldAppend, Go, AtStep, Conclude, Release, Control, TypeOK, WorkTypes,
     Sound, CloseSteps
<1>12. CASE RecordPlan(w)
  BY <1>12 DEF RecordPlan, Go, AtStep, Conclude, Release, Control, TypeOK, WorkTypes,
     Sound, CloseSteps
<1>13. CASE StartFifty(w)
  <2>1. winner[cur[w]] = Fifty /\ Fifty # NoChoice
    BY <1>13, VotesAssumption DEF StartFifty, Control, TypeOK, WorkTypes, Sound,
       CloseSteps
  <2> QED
    BY <1>13, <2>1 DEF StartFifty, Go, AtStep, Conclude, Control, TypeOK, WorkTypes,
       Sound, CloseSteps
<1>14. CASE ReadEvent(w)
  <2>1. winner[cur[w]] = Fifty /\ Fifty # NoChoice
    BY <1>14, VotesAssumption DEF ReadEvent, Control, TypeOK, WorkTypes, Sound,
       CloseSteps
  <2> QED
    BY <1>14, <2>1 DEF ReadEvent, Conclude, Control, TypeOK, WorkTypes, Sound,
       CloseSteps
<1> QED
  BY <1>1, <1>2, <1>3, <1>4, <1>5, <1>6, <1>7, <1>8, <1>9, <1>10, <1>11, <1>12, <1>13,
     <1>14 DEF CloseStep

\* The steps of the receipt and the write leave the worker sound.
LEMMA ActSound ==
  ASSUME IInv, Moved, WinnerMoved, NEW w \in Workers, ActStep(w)
  PROVE  Sound(w)'
<1> USE DEF dbVars, planVars, tallyVars, autoVars, auditVars, worldVars, workVars,
    staffVars, historyVars, OpenerOnly, WorkerOnly, StateOnly, IInv
<1>1. CASE BeginReceipt(w)
  BY <1>1 DEF BeginReceipt, Go, AtStep, Conclude, Release, Control, TypeOK, WorkTypes,
     Sound, CloseSteps
<1>2. CASE BeginRefused(w)
  BY <1>2 DEF BeginRefused, Go, AtStep, Conclude, Release, Control, TypeOK, WorkTypes,
     Sound, CloseSteps
<1>3. CASE SendCheck(w)
  <2>1. winner[cur[w]] # NoChoice
    BY <1>3, VotesAssumption DEF SendCheck, Control, TypeOK, WorkTypes, Sound,
       CloseSteps
  <2> QED
    BY <1>3, <2>1 DEF SendCheck, Go, AtStep, Conclude, Control, TypeOK, WorkTypes,
       Sound, CloseSteps
<1>4. CASE PutWinner(w)
  <2>1. winner[cur[w]] # NoChoice
    BY <1>4, VotesAssumption DEF PutWinner, Control, TypeOK, WorkTypes, Sound,
       CloseSteps
  <2> QED
    BY <1>4, <2>1 DEF PutWinner, Go, AtStep, Conclude, Control, TypeOK, WorkTypes,
       Sound, CloseSteps
<1>5. CASE PutRefused(w)
  <2>1. winner[cur[w]] # NoChoice
    BY <1>5, VotesAssumption DEF PutRefused, Control, TypeOK, WorkTypes, Sound,
       CloseSteps
  <2> QED
    BY <1>5, <2>1 DEF PutRefused, Go, AtStep, Conclude, Control, TypeOK, WorkTypes,
       Sound, CloseSteps
<1>6. CASE PutLost(w)
  <2>1. winner[cur[w]] # NoChoice
    BY <1>6, VotesAssumption DEF PutLost, Control, TypeOK, WorkTypes, Sound, CloseSteps
  <2> QED
    BY <1>6, <2>1 DEF PutLost, Go, AtStep, Conclude, Control, TypeOK, WorkTypes,
       Sound, CloseSteps
<1>7. CASE Settle(w)
  BY <1>7 DEF Settle, Go, AtStep, Conclude, Release, Control, TypeOK, WorkTypes,
     Sound, CloseSteps, FinalOf
<1>8. CASE SettleLost(w)
  BY <1>8 DEF SettleLost, Go, AtStep, Conclude, Release, Control, TypeOK, WorkTypes,
     Sound, CloseSteps
<1> QED BY <1>1, <1>2, <1>3, <1>4, <1>5, <1>6, <1>7, <1>8 DEF ActStep

\* Taking up a ballot keeps the control invariant.
LEMMA TickControl ==
  ASSUME IInv, NEW w \in Workers, NEW v \in Votes, TickStep(w, v)
  PROVE  Control'
<1> USE DEF IInv
<1>1. Moved /\ WinnerMoved BY TickPromise, PromiseMoves
<1>2. UNCHANGED <<opener, queue, receipt>>
  BY DEF TickStep, Recover, CancelExpired, ClaimExpired, Observe, EvaluateOpen,
     ReviewRead, Take, dbVars, autoVars, auditVars, worldVars, workVars, staffVars,
     WorkerOnly, StateOnly
<1>3. \A x \in Workers : x # w => pc'[x] = pc[x] /\ cur'[x] = cur[x] /\ conclusion'[x] = conclusion[x]
  BY DEF TickStep, Recover, CancelExpired, ClaimExpired, Observe, EvaluateOpen,
     ReviewRead, Take, dbVars, autoVars, auditVars, worldVars, workVars, staffVars,
     WorkerOnly, StateOnly, TypeOK, WorkTypes
<1>4. \A x \in Workers : Sound(x)' BY <1>1, <1>3, KeepsSound, TickSound
<1>5. WinnerPast' /\ HasWinner' BY <1>1, <1>2, KeepsWinner
<1>6. \A x \in Votes : voteState[x] = "none" => voteState'[x] = "none"
  BY DEF TickStep, Recover, CancelExpired, ClaimExpired, Observe, EvaluateOpen,
     ReviewRead, Take, Count, SetState, Interrupted, dbVars, autoVars, auditVars,
     worldVars, workVars, staffVars, WorkerOnly, StateOnly, TypeOK, StateTypes
<1>7. FreshManual' BY <1>2, <1>6 DEF Control, FreshManual
<1>8. FreshAuto'
  <2>1. \/ UNCHANGED <<pc, cur>>
        \/ /\ pc[w] = "idle" /\ cur'[w] = v
           /\ pc'[w] \notin {"create", "insert"} /\ voteState[v] # "none"
        \/ EvaluateOpen(w, v)
    BY DEF TickStep, Recover, CancelExpired, ClaimExpired, Observe, EvaluateOpen,
       ReviewRead, Take, Count, InReview, dbVars, autoVars, auditVars, worldVars,
       workVars, staffVars, WorkerOnly, StateOnly, TypeOK, WorkTypes
  <2>2. CASE UNCHANGED <<pc, cur>>
    BY <1>6, <2>2, VotesAssumption DEF Control, FreshAuto, Votes
  <2>3. CASE /\ pc[w] = "idle" /\ cur'[w] = v
             /\ pc'[w] \notin {"create", "insert"} /\ voteState[v] # "none"
    BY <1>3, <1>6, <2>3 DEF Control, FreshAuto, Votes
  <2>4. CASE EvaluateOpen(w, v)
    <3>1. /\ v \in Automatic /\ voteState'[v] = "none" /\ cur'[w] = v
          /\ \A x \in Workers : cur[x] # v
      BY <2>4 DEF EvaluateOpen, Take, TypeOK, WorkTypes
    <3> QED BY <1>3, <1>6, <3>1 DEF Control, FreshAuto, Votes
  <2> QED BY <2>1, <2>2, <2>3, <2>4
<1> QED BY <1>4, <1>5, <1>7, <1>8 DEF Control

\* Only the worker that planned an automatic ballot records it.
LEMMA WorkerFreshAuto ==
  ASSUME IInv, NEW w \in Workers,
         \A x \in Workers : x # w => pc'[x] = pc[x] /\ cur'[x] = cur[x],
         cur'[w] \in {cur[w], NoVote},
         pc'[w] \in {"create", "insert"} =>
           pc[w] \in {"create", "insert"} /\ cur'[w] = cur[w],
         \A v \in Votes : voteState[v] = "none" /\ voteState'[v] # "none" =>
           /\ v = cur[w] /\ pc[w] \in {"create", "insert"}
           /\ pc'[w] \notin {"create", "insert"}
  PROVE  FreshAuto'
<1> SUFFICES ASSUME NEW x \in Workers, pc'[x] \in {"create", "insert"}
             PROVE  /\ cur'[x] \in Automatic /\ voteState'[cur'[x]] = "none"
                    /\ \A y \in Workers : cur'[y] = cur'[x] => y = x
  BY DEF FreshAuto
<1>1. pc[x] \in {"create", "insert"} /\ cur'[x] = cur[x] OBVIOUS
<1>2. /\ cur[x] \in Automatic /\ voteState[cur[x]] = "none"
      /\ \A y \in Workers : cur[y] = cur[x] => y = x
  BY <1>1 DEF IInv, Control, FreshAuto
<1>3. cur[x] \in Votes /\ cur[x] # NoVote BY <1>2, VotesAssumption DEF Votes
<1> QED BY <1>1, <1>2, <1>3

\* Every step of a worker's handler keeps the control invariant.
LEMMA WorkerControl ==
  ASSUME IInv, NEW w \in Workers, WorkerStep(w)
  PROVE  Control'
<1> USE DEF IInv
<1>1. Moved /\ WinnerMoved
  BY OpenTickPromise, ClosePromise, ActPromise, PromiseMoves DEF WorkerStep
<1>2. \A x \in Workers : x # w => pc'[x] = pc[x] /\ cur'[x] = cur[x] /\ conclusion'[x] = conclusion[x]
  <2>1. CASE OpenTickStep(w)
    BY <2>1 DEF OpenTickStep, Confirm, CreateAutomatic, RefuseAutomatic, EndOpening,
       Go, AtStep, Conclude, Release, TypeOK, WorkTypes
  <2>2. CASE CloseStep(w)
    BY <2>2 DEF CloseStep, CancelObserved, ObserveScore, ClaimAtScore, CloseUndecided,
       CheckGame, CloseUnsafe, RecheckBallot, YieldToStaff, StaffClear, AlreadyNext,
       WouldAppend, RecordPlan, StartFifty, ReadEvent, Finish, Resolve, Go, AtStep,
       Conclude, Release, TypeOK, WorkTypes
  <2>3. CASE ActStep(w)
    BY <2>3 DEF ActStep, BeginReceipt, BeginRefused, SendCheck, PutWinner, PutRefused,
       PutLost, Settle, SettleLost, Go, AtStep, Conclude, Release, TypeOK, WorkTypes
  <2> QED BY <2>1, <2>2, <2>3 DEF WorkerStep
<1>3. \A x \in Workers : Sound(x)'
  BY <1>1, <1>2, KeepsSound, OpenTickSound, CloseSound, ActSound DEF WorkerStep
<1>4. WinnerPast' BY <1>1, KeepsWinner
<1>5. HasWinner'
  <2>1. \A v \in Votes : winner[v] # NoChoice => winner'[v] = winner[v]
    BY <1>1 DEF Control, WinnerPast, WinnerMoved, PastOpen, FinalStates, VoteStates,
       ActiveStates
  <2>2. \A v \in Votes : v \in queue' \/ receipt'[v] # "none" =>
          \/ v \in queue \/ receipt[v] # "none"
          \/ v = cur[w] /\ pc[w] \in {"plan", "begin", "settle"}
    <3>1. CASE OpenTickStep(w)
      BY <3>1 DEF OpenTickStep, Confirm, CreateAutomatic, RefuseAutomatic, EndOpening,
         dbVars, autoVars, auditVars, worldVars, workVars, staffVars, WorkerOnly,
         StateOnly
    <3>2. CASE CloseStep(w)
      BY <3>2 DEF CloseStep, CancelObserved, ObserveScore, ClaimAtScore,
         CloseUndecided, CheckGame, CloseUnsafe, RecheckBallot, YieldToStaff,
         StaffClear, AlreadyNext, WouldAppend, RecordPlan, StartFifty, ReadEvent,
         Finish, Resolve, dbVars, autoVars, auditVars, worldVars, workVars, staffVars,
         WorkerOnly, StateOnly
    <3>3. CASE ActStep(w)
      BY <3>3 DEF ActStep, BeginReceipt, BeginRefused, SendCheck, PutWinner,
         PutRefused, PutLost, Settle, SettleLost, dbVars, autoVars, auditVars,
         worldVars, workVars, staffVars, WorkerOnly, StateOnly, Recorded, TypeOK,
         AutomationTypes
    <3> QED BY <3>1, <3>2, <3>3 DEF WorkerStep
  <2>3. pc[w] \in {"plan", "begin", "settle"} => winner[cur[w]] # NoChoice
    BY VotesAssumption DEF Control, Sound
  <2> QED BY <2>1, <2>2, <2>3 DEF Control, HasWinner
<1>6. \A v \in Votes : voteState[v] = "none" /\ voteState'[v] # "none" =>
        v = cur[w] /\ pc[w] = "insert" /\ pc'[w] = "publishing" /\ v \in Automatic
  <2>1. CASE OpenTickStep(w)
    BY <2>1 DEF OpenTickStep, Confirm, CreateAutomatic, RefuseAutomatic, EndOpening,
       Record, SetState, Go, AtStep, Conclude, Release, dbVars, autoVars, auditVars,
       worldVars, workVars, staffVars, WorkerOnly, StateOnly, TypeOK, StateTypes,
       WorkTypes, Control, FreshAuto
  <2>2. CASE CloseStep(w)
    BY <2>2 DEF CloseStep, CancelObserved, ObserveScore, ClaimAtScore, CloseUndecided,
       CheckGame, CloseUnsafe, RecheckBallot, YieldToStaff, StaffClear, AlreadyNext,
       WouldAppend, RecordPlan, StartFifty, ReadEvent, Finish, Resolve, SetState,
       Count, Cancellable, Finishable, dbVars, autoVars, auditVars, worldVars,
       workVars, staffVars, WorkerOnly, StateOnly, TypeOK, StateTypes
  <2>3. CASE ActStep(w)
    BY <2>3 DEF ActStep, BeginReceipt, BeginRefused, SendCheck, PutWinner, PutRefused,
       PutLost, Settle, SettleLost, dbVars, autoVars, auditVars, worldVars, workVars,
       staffVars, WorkerOnly, StateOnly
  <2> QED BY <2>1, <2>2, <2>3 DEF WorkerStep
<1>7. \A v \in Votes : opener'[v] = "create" => opener[v] = "create"
  <2>1. CASE OpenTickStep(w)
    BY <2>1 DEF OpenTickStep, Confirm, CreateAutomatic, RefuseAutomatic, EndOpening,
       Record, Opening, dbVars, autoVars, auditVars, worldVars, workVars, staffVars,
       WorkerOnly, StateOnly, TypeOK, OpenerTypes
  <2>2. CASE CloseStep(w)
    BY <2>2 DEF CloseStep, CancelObserved, ObserveScore, ClaimAtScore, CloseUndecided,
       CheckGame, CloseUnsafe, RecheckBallot, YieldToStaff, StaffClear, AlreadyNext,
       WouldAppend, RecordPlan, StartFifty, ReadEvent, Finish, Resolve, dbVars,
       autoVars, auditVars, worldVars, workVars, staffVars, WorkerOnly, StateOnly
  <2>3. CASE ActStep(w)
    BY <2>3 DEF ActStep, BeginReceipt, BeginRefused, SendCheck, PutWinner, PutRefused,
       PutLost, Settle, SettleLost, dbVars, autoVars, auditVars, worldVars, workVars,
       staffVars, WorkerOnly, StateOnly
  <2> QED BY <2>1, <2>2, <2>3 DEF WorkerStep
<1>8. FreshManual'
  BY <1>6, <1>7, VotesAssumption DEF Control, FreshManual
<1>9. /\ cur'[w] \in {cur[w], NoVote}
      /\ pc'[w] \in {"create", "insert"} =>
           pc[w] \in {"create", "insert"} /\ cur'[w] = cur[w]
  <2>1. CASE OpenTickStep(w)
    BY <2>1 DEF OpenTickStep, Confirm, CreateAutomatic, RefuseAutomatic, EndOpening,
       Go, AtStep, Conclude, Release, TypeOK, WorkTypes
  <2>2. CASE CloseStep(w)
    BY <2>2 DEF CloseStep, CancelObserved, ObserveScore, ClaimAtScore, CloseUndecided,
       CheckGame, CloseUnsafe, RecheckBallot, YieldToStaff, StaffClear, AlreadyNext,
       WouldAppend, RecordPlan, StartFifty, ReadEvent, Finish, Resolve, Go, AtStep,
       Conclude, Release, TypeOK, WorkTypes
  <2>3. CASE ActStep(w)
    BY <2>3 DEF ActStep, BeginReceipt, BeginRefused, SendCheck, PutWinner, PutRefused,
       PutLost, Settle, SettleLost, Go, AtStep, Conclude, Release, TypeOK, WorkTypes
  <2> QED BY <2>1, <2>2, <2>3 DEF WorkerStep
<1>10. FreshAuto' BY <1>2, <1>6, <1>9, WorkerFreshAuto
<1> QED BY <1>3, <1>4, <1>5, <1>8, <1>10 DEF Control

\* A worker that stops keeps the control invariant.
LEMMA CrashControl ==
  ASSUME IInv, NEW w \in Workers, CrashWorker(w)
  PROVE  Control'
<1> USE DEF IInv
<1>1. Moved /\ WinnerMoved BY WorldPromise, PromiseMoves
<1>2. \A x \in Workers : x # w => pc'[x] = pc[x] /\ cur'[x] = cur[x] /\ conclusion'[x] = conclusion[x]
  BY DEF CrashWorker, Release, TypeOK, WorkTypes
<1>3. pc'[w] = "idle" /\ cur'[w] = NoVote /\ voteState' = voteState
  BY DEF CrashWorker, Release, TypeOK, WorkTypes
<1>4. \A x \in Workers : Sound(x)'
  <2>1. Sound(w)' BY <1>3 DEF Sound, CloseSteps
  <2> QED BY <1>1, <1>2, <2>1, KeepsSound
<1>5. WinnerPast' /\ HasWinner'
  BY <1>1, KeepsWinner DEF CrashWorker, dbVars, autoVars, auditVars
<1>6. FreshManual' BY <1>3 DEF Control, FreshManual, CrashWorker, TypeOK, OpenerTypes
<1>7. FreshAuto' BY <1>2, <1>3, WorkerFreshAuto
<1> QED BY <1>4, <1>5, <1>6, <1>7 DEF Control

\* Steps that touch neither a worker, a publishing handler nor a ballot not yet recorded.
LEMMA AsideControl ==
  ASSUME IInv, PromiseStep, UNCHANGED <<pc, cur, conclusion, opener, queue, receipt>>,
         \A v \in Votes : voteState[v] = "none" => voteState'[v] = "none"
  PROVE  Control'
<1> USE DEF IInv
<1>1. Moved /\ WinnerMoved BY PromiseMoves
<1>2. \A x \in Workers : Sound(x)' BY <1>1, KeepsSound
<1>3. WinnerPast' /\ HasWinner' BY <1>1, KeepsWinner
<1>4. FreshManual' BY DEF Control, FreshManual
<1>5. FreshAuto' BY DEF Control, FreshAuto, Votes
<1> QED BY <1>2, <1>3, <1>4, <1>5 DEF Control

\* A BallotPromise step never makes a second ballot unfinished.
LEMMA OneActiveStep ==
  ASSUME StateTypes, OneActive, PromiseStep
  PROVE  OneActive'
<1>1. ASSUME NEW b \in Votes, NEW from, NEW s, Promise!Become(b, from, s),
             from \subseteq ActiveStates \/ s \notin ActiveStates
      PROVE  OneActive'
  <2>1. \A v \in Votes : voteState'[v] = IF v = b THEN s ELSE voteState[v]
    BY <1>1 DEF Promise!Become, StateTypes
  <2>2. Active' \subseteq Active
    BY <1>1, <2>1 DEF Active, Promise!Become
  <2> QED BY <2>2 DEF OneActive
<1>2. ASSUME NEW b \in Votes, Promise!Create(b) PROVE OneActive'
  <2>1. Active = {}
    BY <1>2 DEF Promise!Create, Promise!Unfinished, Promise!Results, Active,
       ActiveStates
  <2>2. \A v \in Votes : voteState'[v] = IF v = b THEN "publishing" ELSE voteState[v]
    BY <1>2 DEF Promise!Create, Promise!Become, StateTypes
  <2>3. Active' \subseteq {b} BY <2>1, <2>2 DEF Active
  <2> QED BY <2>3 DEF OneActive
<1>3. ASSUME NEW b \in Votes, Promise!Open(b) \/ Promise!Count(b) \/ Promise!Doubt(b)
                              \/ Promise!Withdraw(b)
      PROVE  OneActive'
  BY <1>1, <1>3 DEF Promise!Open, Promise!Count, Promise!Doubt, Promise!Withdraw,
     ActiveStates
<1>4. ASSUME NEW b \in Votes, NEW r \in Promise!Results, Promise!Conclude(b, r)
      PROVE  OneActive'
  BY <1>1, <1>4 DEF Promise!Conclude, ActiveStates
<1>5. CASE UNCHANGED voteState BY <1>5 DEF OneActive, Active
<1>6. ASSUME NEW b \in Votes, NEW u \in Users, NEW c \in Choices, Promise!Vote(b, u, c)
      PROVE  OneActive'
  BY <1>5, <1>6 DEF Promise!Vote
<1> QED BY <1>2, <1>3, <1>4, <1>5, <1>6 DEF PromiseStep, Promise!Next, Promise!vars

-------------------------------------------------------------------------------
(* The inductive invariant.                                                  *)

\* Every step of the system is a step or a stutter of BallotPromise.
LEMMA StepPromise ==
  ASSUME IInv, [Next]_vars
  PROVE  PromiseStep
<1> USE DEF IInv
<1>1. CASE UNCHANGED vars BY <1>1, UnseenStep DEF vars, dbVars, tallyVars, Unseen
<1>2. ASSUME NEW on \in BOOLEAN, SavePolicy(on) PROVE PromiseStep
  BY <1>2, PolicyPromise
<1>3. ASSUME NEW v \in Votes, OpenerStep(v) \/ VoteStep(v) PROVE PromiseStep
  BY <1>3, OpenerPromise, VoterPromise
<1>4. ASSUME NEW w \in Workers, NEW v \in Votes, TickStep(w, v) PROVE PromiseStep
  BY <1>4, TickPromise
<1>5. ASSUME NEW w \in Workers, WorkerStep(w) PROVE PromiseStep
  BY <1>5, OpenTickPromise, ClosePromise, ActPromise DEF WorkerStep
<1>6. ASSUME NEW s \in StaffOps, StaffStep(s) PROVE PromiseStep
  BY <1>6, StaffPromise
<1>7. ASSUME NEW w \in Workers, CrashWorker(w) PROVE PromiseStep
  BY <1>7, WorldPromise
<1>8. CASE GameStep
  BY <1>8, UnseenStep DEF GameStep, ScoreRises, NextRound, SettingsSave, RotationSave,
     Unseen, dbVars, planVars, tallyVars, autoVars, auditVars, worldVars, workVars,
     staffVars, historyVars, WorkerOnly, StateOnly, OpenerOnly
<1> QED BY <1>1, <1>2, <1>3, <1>4, <1>5, <1>6, <1>7, <1>8 DEF Next

\* Every step of the system keeps every type.
LEMMA StepTypes ==
  ASSUME IInv, [Next]_vars
  PROVE  TypeOK'
<1> USE DEF IInv
<1>1. CASE UNCHANGED vars BY <1>1, UnmovedTypes DEF vars, dbVars, TypeOK
<1>2. ASSUME NEW on \in BOOLEAN, SavePolicy(on) PROVE TypeOK'
  BY <1>2, PolicyTypes
<1>3. ASSUME NEW v \in Votes, OpenerStep(v) \/ VoteStep(v) PROVE TypeOK'
  BY <1>3, OpenerStepTypes, VoterStepTypes
<1>4. ASSUME NEW w \in Workers, NEW v \in Votes, TickStep(w, v) PROVE TypeOK'
  BY <1>4, TickStepTypes
<1>5. ASSUME NEW w \in Workers, WorkerStep(w) PROVE TypeOK'
  BY <1>5, OpenTickStepTypes, CloseStepTypes, ActStepTypes DEF WorkerStep
<1>6. ASSUME NEW s \in StaffOps, StaffStep(s) PROVE TypeOK'
  BY <1>6, StaffStepTypes
<1>7. ASSUME NEW w \in Workers, CrashWorker(w) PROVE TypeOK'
  BY <1>7, CrashTypes
<1>8. CASE GameStep BY <1>8, GameStepTypes
<1> QED BY <1>1, <1>2, <1>3, <1>4, <1>5, <1>6, <1>7, <1>8 DEF Next

\* Every step of the system keeps the control invariant.
LEMMA StepControl ==
  ASSUME IInv, [Next]_vars
  PROVE  Control'
<1>1. PromiseStep BY StepPromise
<1>2. CASE UNCHANGED vars
  BY <1>1, <1>2, AsideControl DEF vars, dbVars, autoVars, auditVars, workVars
<1>3. ASSUME NEW on \in BOOLEAN, SavePolicy(on) PROVE Control'
  <2>1. \A v \in Votes : voteState[v] = "none" => voteState'[v] = "none"
    BY <1>3 DEF SavePolicy, CloseAutomatic, IInv, TypeOK, StateTypes
  <2> QED
    BY <1>1, <1>3, <2>1, AsideControl DEF SavePolicy, autoVars, auditVars, workVars
<1>4. ASSUME NEW v \in Votes, OpenerStep(v) PROVE Control'
  BY <1>4, OpenerControl
<1>5. ASSUME NEW v \in Votes, VoteStep(v) PROVE Control'
  <2>1. \A x \in Votes : voteState[x] = "none" => voteState'[x] = "none"
    BY <1>5 DEF VoteStep, Cast, Expire, StaffClose, Cancellable, SetState, IInv,
       TypeOK, StateTypes, dbVars
  <2> QED
    BY <1>1, <1>5, <2>1, AsideControl DEF VoteStep, Cast, Expire, StaffClose, dbVars,
       planVars, tallyVars, autoVars, auditVars, worldVars, workVars, staffVars,
       historyVars, WorkerOnly, StateOnly, OpenerOnly
<1>6. ASSUME NEW w \in Workers, NEW v \in Votes, TickStep(w, v) PROVE Control'
  BY <1>6, TickControl
<1>7. ASSUME NEW w \in Workers, WorkerStep(w) PROVE Control'
  BY <1>7, WorkerControl
<1>8. ASSUME NEW s \in StaffOps, StaffStep(s) PROVE Control'
  <2>1. \A x \in Votes : voteState[x] = "none" => voteState'[x] = "none"
    BY <1>8 DEF StaffStep, QueueBegin, QueueEnd, QueueNotSent, QueueListen,
       QueueUnchanged, QueueChanged, CrashStaff, IInv, TypeOK, StateTypes
  <2> QED
    BY <1>1, <1>8, <2>1, AsideControl DEF StaffStep, QueueBegin, QueueEnd,
       QueueNotSent, QueueListen, QueueUnchanged, QueueChanged, CrashStaff, dbVars,
       planVars, tallyVars, autoVars, auditVars, worldVars, workVars, staffVars,
       historyVars, WorkerOnly, StateOnly, OpenerOnly
<1>9. ASSUME NEW w \in Workers, CrashWorker(w) PROVE Control'
  BY <1>9, CrashControl
<1>10. CASE GameStep
  BY <1>1, <1>10, AsideControl DEF GameStep, ScoreRises, NextRound, SettingsSave,
     RotationSave, dbVars, planVars, tallyVars, autoVars, auditVars, worldVars,
     workVars, staffVars, historyVars, WorkerOnly, StateOnly, OpenerOnly
<1> QED BY <1>2, <1>3, <1>4, <1>5, <1>6, <1>7, <1>8, <1>9, <1>10 DEF Next

\* The inductive invariant holds at the start.
LEMMA InitInvariant == Init => IInv
<1> SUFFICES ASSUME Init PROVE IInv OBVIOUS
<1> USE DEF Init
<1>1. StateTypes BY DEF StateTypes
<1>2. Unwritten \in [Rounds -> Entries] /\ 0 \in Rounds /\ 0 \in Scores
  BY BoundsAssumption DEF Unwritten, Entries, Rounds, Scores
<1>3. PlanTypes BY <1>2 DEF PlanTypes, NoRow, Rows
<1>4. TallyTypes BY DEF TallyTypes
<1>5. AutomationTypes BY <1>2 DEF AutomationTypes
<1>6. WorldTypes BY <1>2 DEF WorldTypes, GameOf
<1>7. OpenerTypes BY DEF OpenerTypes
<1>8. WorkTypes BY <1>6, ReadingType DEF WorkTypes, Steps, Conclusions
<1>9. StaffTypes BY DEF StaffTypes
<1>10. HistoryTypes BY DEF HistoryTypes
<1>11. Control
  BY DEF Control, Sound, CloseSteps, FreshManual, FreshAuto, WinnerPast, HasWinner
<1>12. OneActive BY DEF OneActive, Active, ActiveStates
<1> QED BY <1>1, <1>3, <1>4, <1>5, <1>6, <1>7, <1>8, <1>9, <1>10, <1>11, <1>12
        DEF IInv, TypeOK

\* The inductive invariant holds always.
LEMMA Inductive == Spec => []IInv
<1>1. IInv /\ [Next]_vars => IInv'
  BY StepPromise, StepTypes, StepControl, OneActiveStep DEF IInv, TypeOK
<1> QED BY InitInvariant, <1>1, PTL DEF Spec

\* Rows, handlers and the game document keep the values their columns and schemas allow.
THEOREM TypeCorrect == Spec => []TypeOK
<1>1. IInv => TypeOK BY DEF IInv
<1> QED BY <1>1, Inductive, PTL

\* One ballot is unfinished at a time, for any number of ballots, processes and crashes.
THEOREM OneBallotAtATime == Spec => []OneActive
<1>1. IInv => OneActive BY DEF IInv
<1> QED BY <1>1, Inductive, PTL

\* The handlers together implement the abstract promise of BallotPromise.
THEOREM KeepsPromise == Spec => PromiseKept
<1>1. Init => Promise!Init BY DEF Init, Promise!Init
<1>2. IInv /\ [Next]_vars => [Promise!Next]_(Promise!vars)
  BY StepPromise DEF PromiseStep
<1> QED BY <1>1, <1>2, Inductive, PTL DEF Spec, PromiseKept, Promise!Spec

\* Counts and winners are stored by Count alone, and only Count starts a close.
Uncounted == /\ UNCHANGED <<counts, winner>>
             /\ \A v \in Votes : voteState'[v] = "closing" => voteState[v] = "closing"
CountedNow == \E v \in Votes : Count(v) /\ UNCHANGED ballots
Decided(v) == voteState[v] \in {"closing", "tied", "no_votes"} \/ winner[v] # NoChoice
TallyInv ==
  /\ \A v \in Votes : voteState[v] = "queued" => winner[v] # NoChoice
  /\ \A v \in Votes : Decided(v) =>
       counts[v] = Tally(v) /\ winner[v] = BallotWinner(Tally(v), RuleOf(v))

-------------------------------------------------------------------------------
(* Counts are exact.                                                         *)

\* A step counts one open ballot or leaves counts and winners alone.
LEMMA CountOrNot ==
  ASSUME IInv, [Next]_vars
  PROVE  Uncounted \/ CountedNow
<1> USE DEF IInv, TypeOK, StateTypes, Uncounted, dbVars, planVars, tallyVars,
    autoVars, auditVars, worldVars, workVars, staffVars, historyVars, WorkerOnly,
    StateOnly, OpenerOnly
<1>1. CASE UNCHANGED vars BY <1>1 DEF vars
<1>2. ASSUME NEW on \in BOOLEAN, SavePolicy(on) PROVE Uncounted
  BY <1>2 DEF SavePolicy, CloseAutomatic
<1>3. ASSUME NEW v \in Votes, OpenerStep(v) PROVE Uncounted
  BY <1>3 DEF OpenerStep, PrepareManual, CreateManual, RefuseManual, Published,
     PublishUnconfirmed, ConfirmPublished, RecheckPolicy, RecheckUnreadable, UndoOpen,
     FailOpen, CrashOpener, Publish, Record, SetState
<1>4. ASSUME NEW v \in Votes, VoteStep(v) PROVE Uncounted
  BY <1>4 DEF VoteStep, Cast, Expire, StaffClose, SetState
<1>5. ASSUME NEW w \in Workers, NEW v \in Votes, TickStep(w, v)
      PROVE  Uncounted \/ CountedNow
  <2>1. CASE ClaimExpired(w, v) BY <2>1 DEF ClaimExpired, CountedNow
  <2>2. CASE ~ClaimExpired(w, v)
    BY <1>5, <2>2 DEF TickStep, Recover, CancelExpired, ClaimExpired, Observe,
       EvaluateOpen, ReviewRead, SetState
  <2> QED BY <2>1, <2>2
<1>6. ASSUME NEW w \in Workers, WorkerStep(w)
      PROVE  Uncounted \/ CountedNow
  <2>1. CASE OpenTickStep(w)
    BY <2>1 DEF OpenTickStep, Confirm, CreateAutomatic, RefuseAutomatic, EndOpening,
       Record, SetState
  <2>2. CASE ClaimAtScore(w)
    BY <2>2 DEF ClaimAtScore, CountedNow, Control, Sound
  <2>3. CASE CloseStep(w) /\ ~ClaimAtScore(w)
    <3>1. UNCHANGED <<counts, winner>>
      BY <2>3 DEF CloseStep, CancelObserved, ObserveScore, ClaimAtScore,
         CloseUndecided, CheckGame, CloseUnsafe, RecheckBallot, YieldToStaff,
         StaffClear, AlreadyNext, WouldAppend, RecordPlan, StartFifty, ReadEvent,
         Finish, Resolve
    <3>2. \A v \in Votes : voteState'[v] = "closing" => voteState[v] = "closing"
      <4>1. CASE Finish(w) BY <4>1 DEF Finish, SetState, Ending, Control, Sound
      <4>2. CASE ~Finish(w)
        BY <2>3, <4>2 DEF CloseStep, CancelObserved, ObserveScore, ClaimAtScore,
           CloseUndecided, CheckGame, CloseUnsafe, RecheckBallot, YieldToStaff,
           StaffClear, AlreadyNext, WouldAppend, RecordPlan, StartFifty, ReadEvent,
           Finish, Resolve, SetState
      <4> QED BY <4>1, <4>2
    <3> QED BY <3>1, <3>2
  <2>4. CASE ActStep(w)
    BY <2>4 DEF ActStep, BeginReceipt, BeginRefused, SendCheck, PutWinner, PutRefused,
       PutLost, Settle, SettleLost
  <2> QED BY <1>6, <2>1, <2>2, <2>3, <2>4 DEF WorkerStep
<1>7. ASSUME NEW s \in StaffOps, StaffStep(s) PROVE Uncounted
  BY <1>7 DEF StaffStep, QueueBegin, QueueEnd, QueueNotSent, QueueListen,
     QueueUnchanged, QueueChanged, CrashStaff
<1>8. ASSUME NEW w \in Workers, CrashWorker(w) PROVE Uncounted
  BY <1>8 DEF CrashWorker
<1>9. CASE GameStep
  BY <1>9 DEF GameStep, ScoreRises, NextRound, SettingsSave, RotationSave
<1> QED BY <1>1, <1>2, <1>3, <1>4, <1>5, <1>6, <1>7, <1>8, <1>9 DEF Next

\* Votes move only while a ballot is open, and results keep to its winner.
ResultsMoved == \A v \in Votes :
  /\ voteState'[v] \in {"tied", "no_votes"} =>
       voteState[v] \in {"closing", "tied", "no_votes"}
  /\ voteState'[v] = "queued" => voteState[v] = "queued" \/ winner[v] # NoChoice
  /\ ballots'[v] # ballots[v] => voteState[v] = "open" /\ voteState'[v] = "open"

\* A BallotPromise step changes choices and results as ResultsMoved says.
LEMMA PromiseResults ==
  ASSUME TypeOK, PromiseStep
  PROVE  ResultsMoved
<1> USE DEF TypeOK, StateTypes, TallyTypes, ResultsMoved
<1>1. CASE UNCHANGED Promise!vars BY <1>1 DEF Promise!vars
<1>2. ASSUME NEW b \in Votes, Promise!Create(b) \/ Promise!Open(b) \/ Promise!Count(b)
                              \/ Promise!Doubt(b) \/ Promise!Withdraw(b)
      PROVE  ResultsMoved
  BY <1>2 DEF Promise!Create, Promise!Open, Promise!Count, Promise!Doubt,
     Promise!Withdraw, Promise!Become
<1>3. ASSUME NEW b \in Votes, NEW r \in Promise!Results, Promise!Conclude(b, r)
      PROVE  ResultsMoved
  BY <1>3 DEF Promise!Conclude, Promise!Become
<1>4. ASSUME NEW b \in Votes, NEW u \in Users, NEW c \in Choices, Promise!Vote(b, u, c)
      PROVE  ResultsMoved
  BY <1>4 DEF Promise!Vote
<1> QED BY <1>1, <1>2, <1>3, <1>4 DEF PromiseStep, Promise!Next

\* The tally depends on the stored choices only.
LEMMA TallyUnchanged ==
  ASSUME NEW v \in Votes, ballots'[v] = ballots[v]
  PROVE  Tally(v)' = Tally(v)
BY DEF Tally, Voters

\* Every step keeps the counts of decided ballots exact.
LEMMA TallyStep ==
  ASSUME IInv, TallyInv, [Next]_vars
  PROVE  TallyInv'
<1> USE DEF IInv
<1>1. PromiseStep /\ ResultsMoved BY StepPromise, PromiseResults
<1>2. CASE Uncounted
  <2>1. \A v \in Votes : voteState'[v] = "queued" => winner'[v] # NoChoice
    BY <1>1, <1>2 DEF Uncounted, ResultsMoved, TallyInv
  <2>2. SUFFICES ASSUME NEW v \in Votes, Decided(v)'
                 PROVE  counts'[v] = Tally(v)' /\ winner'[v] = BallotWinner(Tally(v)',
                    RuleOf(v))
    BY <2>1 DEF TallyInv, RuleOf
  <2>3. Decided(v) BY <1>1, <1>2, <2>2 DEF Decided, Uncounted, ResultsMoved
  <2>4. voteState[v] # "open"
    BY <2>3 DEF Decided, Control, WinnerPast, PastOpen, FinalStates, VoteStates,
       ActiveStates
  <2>5. Tally(v)' = Tally(v) BY <1>1, <2>4, TallyUnchanged DEF ResultsMoved
  <2> QED BY <1>2, <2>3, <2>5 DEF Uncounted, TallyInv
<1>3. CASE CountedNow
  <2>1. PICK b \in Votes : Count(b) /\ UNCHANGED ballots BY <1>3 DEF CountedNow
  <2>2. \A v \in Votes : Tally(v)' = Tally(v) BY <2>1, TallyUnchanged
  <2>3. \A v \in Votes : v # b => /\ voteState'[v] = voteState[v]
                                  /\ counts'[v] = counts[v] /\ winner'[v] = winner[v]
    BY <2>1 DEF Count, SetState, TypeOK, StateTypes, TallyTypes
  <2>4. /\ voteState'[b] = "closing" /\ counts'[b] = Tally(b)
        /\ winner'[b] = BallotWinner(Tally(b), RuleOf(b))
    BY <2>1 DEF Count, SetState, TypeOK, StateTypes, TallyTypes
  <2> QED BY <2>2, <2>3, <2>4 DEF TallyInv, Decided, RuleOf
<1> QED BY <1>2, <1>3, CountOrNot

\* The counts of a claimed close are the stored choices of all members, for good, and
\* the winner is the one the tie rule gives.
THEOREM CountsAreExact == Spec => []TallyExact
<1>1. Init => TallyInv BY DEF Init, TallyInv, Decided
<1>2. IInv /\ TallyInv /\ [Next]_vars => TallyInv' BY TallyStep
<1>3. TallyInv => TallyExact BY DEF TallyInv, TallyExact, Counted, Decided
<1> QED BY <1>1, <1>2, <1>3, Inductive, PTL DEF Spec

\* The receipt is what makes a write happen once: its row is inserted by one worker only.
SendSteps == {"send", "put"}
OneSender == \A w, x \in Workers :
  pc[w] \in SendSteps /\ pc[x] \in SendSteps /\ cur[w] = cur[x] => w = x
SendsFirst == \A w \in Workers : pc[w] \in SendSteps =>
  receipt[cur[w]] # "none" /\ wrote[cur[w]] = 0
WriteInv == WrittenOnce /\ OneSender /\ SendsFirst

\* A step that begins no send and writes nothing.
NoWrite ==
  /\ UNCHANGED wrote
  /\ \A v \in Votes : receipt[v] # "none" => receipt'[v] # "none"
  /\ \A w \in Workers : pc'[w] \in SendSteps => pc[w] \in SendSteps /\ cur'[w] = cur[w]

-------------------------------------------------------------------------------
(* A winner is written once.                                                 *)

\* A step records a receipt, writes a winner, or does neither.
LEMMA WriteOrNot ==
  ASSUME IInv, [Next]_vars
  PROVE  NoWrite \/ \E w \in Workers : BeginReceipt(w) \/ PutWinner(w)
<1> USE DEF IInv, TypeOK, WorkTypes, NoWrite, SendSteps, dbVars, planVars, tallyVars,
    autoVars, auditVars, worldVars, workVars, staffVars, historyVars, WorkerOnly,
    StateOnly, OpenerOnly
<1>1. CASE UNCHANGED vars BY <1>1 DEF vars
<1>2. ASSUME NEW on \in BOOLEAN, SavePolicy(on) PROVE NoWrite
  BY <1>2 DEF SavePolicy
<1>3. ASSUME NEW v \in Votes, OpenerStep(v) PROVE NoWrite
  BY <1>3 DEF OpenerStep, PrepareManual, CreateManual, RefuseManual, Published,
     PublishUnconfirmed, ConfirmPublished, RecheckPolicy, RecheckUnreadable, UndoOpen,
     FailOpen, CrashOpener, Publish
<1>4. ASSUME NEW v \in Votes, VoteStep(v) PROVE NoWrite
  BY <1>4 DEF VoteStep, Cast, Expire, StaffClose
<1>5. ASSUME NEW w \in Workers, NEW v \in Votes, TickStep(w, v) PROVE NoWrite
  BY <1>5 DEF TickStep, Recover, CancelExpired, ClaimExpired, Observe, EvaluateOpen,
     ReviewRead, Take, Count
<1>6. ASSUME NEW w \in Workers, WorkerStep(w), ~BeginReceipt(w),
   ~PutWinner(w) PROVE NoWrite
  <2>1. CASE OpenTickStep(w)
    BY <2>1 DEF OpenTickStep, Confirm, CreateAutomatic, RefuseAutomatic, EndOpening,
       Go, AtStep, Conclude, Release
  <2>2. CASE CloseStep(w)
    BY <2>2 DEF CloseStep, CancelObserved, ObserveScore, ClaimAtScore, CloseUndecided,
       CheckGame, CloseUnsafe, RecheckBallot, YieldToStaff, StaffClear, AlreadyNext,
       WouldAppend, RecordPlan, StartFifty, ReadEvent, Finish, Resolve, Count, Go,
       AtStep, Conclude, Release
  <2>3. CASE ActStep(w)
    BY <1>6, <2>3 DEF ActStep, BeginRefused, SendCheck, PutRefused, PutLost, Settle,
       SettleLost, Go, AtStep, Conclude, Release, Control, Sound, AutomationTypes
  <2> QED BY <1>6, <2>1, <2>2, <2>3 DEF WorkerStep
<1>7. ASSUME NEW s \in StaffOps, StaffStep(s) PROVE NoWrite
  BY <1>7 DEF StaffStep, QueueBegin, QueueEnd, QueueNotSent, QueueListen,
     QueueUnchanged, QueueChanged, CrashStaff, PutEntry
<1>8. ASSUME NEW w \in Workers, CrashWorker(w) PROVE NoWrite
  BY <1>8 DEF CrashWorker, Release
<1>9. CASE GameStep
  BY <1>9 DEF GameStep, ScoreRises, NextRound, SettingsSave, RotationSave, PutEntry
<1> QED BY <1>1, <1>2, <1>3, <1>4, <1>5, <1>6, <1>7, <1>8, <1>9 DEF Next

\* Every step keeps the write at most once, under its receipt.
LEMMA WriteStep ==
  ASSUME IInv, WriteInv, [Next]_vars
  PROVE  WriteInv'
<1> USE DEF IInv, TypeOK, WorkTypes, WriteInv, SendSteps
<1>1. CASE NoWrite
  <2>1. \A w \in Workers : pc'[w] \in SendSteps => cur[w] \in Votes
    BY <1>1 DEF NoWrite, Control, Sound
  <2> QED BY <1>1, <2>1 DEF NoWrite, WrittenOnce, OneSender, SendsFirst
<1>2. ASSUME NEW w \in Workers, BeginReceipt(w) PROVE WriteInv'
  <2> DEFINE v == cur[w]
  <2>1. /\ v \in Votes /\ receipt[v] = "none" /\ receipt'[v] = "started"
        /\ \A x \in Votes : x # v => receipt'[x] = receipt[x]
        /\ wrote' = wrote /\ cur' = cur
        /\ \A x \in Workers : x # w => pc'[x] = pc[x]
    BY <1>2 DEF BeginReceipt, Recorded, AtStep, Control, Sound, AutomationTypes,
       historyVars
  <2>2. \A x \in Workers : pc[x] \in SendSteps => cur[x] \in Votes /\ cur[x] # v
    BY <2>1 DEF SendsFirst, Control, Sound
  <2>3. wrote[v] = 0 BY <2>1 DEF WrittenOnce, HistoryTypes
  <2>4. WrittenOnce' BY <2>1 DEF WrittenOnce
  <2>5. OneSender' BY <2>1, <2>2 DEF OneSender
  <2>6. SendsFirst' BY <2>1, <2>2, <2>3 DEF SendsFirst
  <2> QED BY <2>4, <2>5, <2>6
<1>3. ASSUME NEW w \in Workers, PutWinner(w) PROVE WriteInv'
  <2> DEFINE v == cur[w]
  <2>1. /\ v \in Votes /\ pc[w] = "put" /\ pc'[w] = "settle"
        /\ wrote'[v] = wrote[v] + 1 /\ receipt' = receipt /\ cur' = cur
        /\ \A x \in Votes : x # v => wrote'[x] = wrote[x]
        /\ \A x \in Workers : x # w => pc'[x] = pc[x]
    BY <1>3 DEF PutWinner, Conclude, Control, Sound, HistoryTypes, dbVars, auditVars
  <2>2. receipt[v] # "none" /\ wrote[v] = 0 BY <2>1 DEF SendsFirst
  <2>3. WrittenOnce' BY <2>1, <2>2 DEF WrittenOnce
  <2>4. OneSender' BY <2>1 DEF OneSender
  <2>5. \A x \in Workers : pc'[x] \in SendSteps => x # w /\ cur[x] # v /\ cur[x] \in Votes
    BY <2>1 DEF OneSender, Control, Sound
  <2>6. SendsFirst' BY <2>1, <2>5 DEF SendsFirst
  <2> QED BY <2>3, <2>4, <2>6
<1> QED BY <1>1, <1>2, <1>3, WriteOrNot

\* However often a close is retried, recovered or restarted, and by however many
\* processes, a ballot's winner is written to the game at most once, under its receipt.
THEOREM WinnerWrittenOnce == Spec => []WrittenOnce
<1>1. Init => WriteInv
  BY DEF Init, WriteInv, WrittenOnce, OneSender, SendsFirst, SendSteps
<1>2. IInv /\ WriteInv /\ [Next]_vars => WriteInv' BY WriteStep
<1>3. WriteInv => WrittenOnce BY DEF WriteInv
<1> QED BY <1>1, <1>2, <1>3, Inductive, PTL DEF Spec

-----------------------------------------------------------------------------
(* The rules a ballot keeps beside its promise *)

OpenSteps == {"create", "insert"}

\* The newest automatic ballots among the first n all refused under one version.
RefusedRun(n, version) ==
  /\ Cardinality(Recent(n)) = RefusalBrake
  /\ \A i \in Recent(n) : /\ outcome[order[i]] = "refused"
                          /\ row[order[i]].version = version

RowsPast == \A v \in Votes : row[v].round <= game.round
Listed == \A i \in 1 .. Len(order) : voteState[order[i]] # "none"
\* Only the newest ballot may be unfinished: the index admits no second one.
EarlierEnded == \A i \in 1 .. Len(order) - 1 : voteState[order[i]] \in FinalStates
RefusedEnds == \A v \in Votes : outcome[v] = "refused" => voteState[v] = "cancelled"
\* What a worker that is about to open a ballot knows of the ballot it read as newest.
\* While that ballot still is the newest, everything the worker decided on still holds.
OpensSound(w) ==
  LET v == cur[w] l == seen[w].latest IN
  pc[w] \in OpenSteps =>
    /\ l \in Votes => voteState[l] # "none" /\ row[l].round < row[v].round
    /\ l = Latest => Active = {} /\ ~RefusedRun(Len(order), row[v].version)
OrderInv ==
  /\ RowsPast /\ Listed /\ EarlierEnded /\ RefusedEnds
  /\ \A w \in Workers : OpensSound(w)
  /\ OncePerRound /\ BrakeHolds

\* A step that plans and records no ballot and takes none up for opening.
NoneOpens ==
  /\ UNCHANGED planVars
  /\ \A v \in Votes : voteState'[v] \in ActiveStates => voteState[v] \in ActiveStates
  /\ \A w \in Workers : pc'[w] \in OpenSteps =>
       pc[w] \in OpenSteps /\ cur'[w] = cur[w] /\ seen'[w] = seen[w]

-------------------------------------------------------------------------------
(* What a step may change.                                                   *)

\* A step plans a ballot, records one, or does neither.
LEMMA OpensOrNot ==
  ASSUME IInv, [Next]_vars
  PROVE  \/ NoneOpens
         \/ \E v \in Votes : PrepareManual(v) \/ CreateManual(v)
         \/ \E w \in Workers, v \in Votes : EvaluateOpen(w, v)
         \/ \E w \in Workers : CreateAutomatic(w)
<1> USE DEF IInv, TypeOK, StateTypes, WorkTypes, NoneOpens, OpenSteps, ActiveStates,
    FinalStates, dbVars, planVars, tallyVars, autoVars, auditVars, worldVars, workVars,
    staffVars, historyVars, WorkerOnly, StateOnly, OpenerOnly
<1>1. CASE UNCHANGED vars BY <1>1 DEF vars
<1>2. ASSUME NEW on \in BOOLEAN, SavePolicy(on) PROVE NoneOpens
  BY <1>2 DEF SavePolicy, CloseAutomatic
<1>3. ASSUME NEW v \in Votes, OpenerStep(v), ~PrepareManual(v), ~CreateManual(v)
      PROVE  NoneOpens
  BY <1>3 DEF OpenerStep, RefuseManual, Published, PublishUnconfirmed,
     ConfirmPublished, RecheckPolicy, RecheckUnreadable, UndoOpen, FailOpen,
     CrashOpener, Publish, SetState, Finishable, Cancellable
<1>4. ASSUME NEW v \in Votes, VoteStep(v) PROVE NoneOpens
  BY <1>4 DEF VoteStep, Cast, Expire, StaffClose, SetState, Cancellable
<1>5. ASSUME NEW w \in Workers, NEW v \in Votes, TickStep(w, v), ~EvaluateOpen(w, v)
      PROVE  NoneOpens
  BY <1>5 DEF TickStep, Recover, CancelExpired, ClaimExpired, Observe, ReviewRead,
     Take, Count, SetState, Interrupted
<1>6. ASSUME NEW w \in Workers, WorkerStep(w), ~CreateAutomatic(w) PROVE NoneOpens
  <2>1. CASE OpenTickStep(w)
    BY <1>6, <2>1 DEF OpenTickStep, Confirm, RefuseAutomatic, EndOpening, Go, AtStep,
       Release
  <2>2. CASE CloseStep(w)
    <3>1. CASE Finish(w)
      BY <3>1 DEF Finish, Release, SetState, Ending, Finishable, Control, Sound
    <3>2. CASE ~Finish(w)
      BY <2>2, <3>2 DEF CloseStep, CancelObserved, ObserveScore, ClaimAtScore,
         CloseUndecided, CheckGame, CloseUnsafe, RecheckBallot, YieldToStaff,
         StaffClear, AlreadyNext, WouldAppend, RecordPlan, StartFifty, ReadEvent,
         Resolve, Count, Go, AtStep, Conclude, Release, SetState, Cancellable
    <3> QED BY <3>1, <3>2
  <2>3. CASE ActStep(w)
    BY <2>3 DEF ActStep, BeginReceipt, BeginRefused, SendCheck, PutWinner, PutRefused,
       PutLost, Settle, SettleLost, Go, AtStep, Conclude, Release
  <2> QED BY <1>6, <2>1, <2>2, <2>3 DEF WorkerStep
<1>7. ASSUME NEW s \in StaffOps, StaffStep(s) PROVE NoneOpens
  BY <1>7 DEF StaffStep, QueueBegin, QueueEnd, QueueNotSent, QueueListen,
     QueueUnchanged, QueueChanged, CrashStaff
<1>8. ASSUME NEW w \in Workers, CrashWorker(w) PROVE NoneOpens
  BY <1>8 DEF CrashWorker, Release
<1>9. CASE GameStep
  BY <1>9 DEF GameStep, ScoreRises, NextRound, SettingsSave, RotationSave
<1> QED BY <1>1, <1>2, <1>3, <1>4, <1>5, <1>6, <1>7, <1>8, <1>9 DEF Next

\* The round only rises.
LEMMA RoundRises ==
  ASSUME IInv, [Next]_vars
  PROVE  game'.round >= game.round
<1> USE DEF IInv, TypeOK, WorldTypes, Rounds, dbVars, worldVars, WorkerOnly, StateOnly,
    OpenerOnly, GameOf, PutEntry
<1>0. game.round \in Nat BY BoundsAssumption
<1>1. CASE UNCHANGED vars BY <1>0, <1>1 DEF vars
<1>2. ASSUME NEW on \in BOOLEAN, SavePolicy(on) PROVE game' = game
  BY <1>2 DEF SavePolicy
<1>3. ASSUME NEW v \in Votes, OpenerStep(v) PROVE game' = game
  BY <1>3 DEF OpenerStep, PrepareManual, CreateManual, RefuseManual, Published,
     PublishUnconfirmed, ConfirmPublished, RecheckPolicy, RecheckUnreadable, UndoOpen,
     FailOpen, CrashOpener, Publish
<1>4. ASSUME NEW v \in Votes, VoteStep(v) PROVE game' = game
  BY <1>4 DEF VoteStep, Cast, Expire, StaffClose
<1>5. ASSUME NEW w \in Workers, NEW v \in Votes, TickStep(w, v) PROVE game' = game
  BY <1>5 DEF TickStep, Recover, CancelExpired, ClaimExpired, Observe, EvaluateOpen,
     ReviewRead
<1>6. ASSUME NEW w \in Workers, WorkerStep(w) PROVE game'.round = game.round
  <2>1. CASE OpenTickStep(w)
    BY <2>1 DEF OpenTickStep, Confirm, CreateAutomatic, RefuseAutomatic, EndOpening
  <2>2. CASE CloseStep(w)
    BY <2>2 DEF CloseStep, CancelObserved, ObserveScore, ClaimAtScore, CloseUndecided,
       CheckGame, CloseUnsafe, RecheckBallot, YieldToStaff, StaffClear, AlreadyNext,
       WouldAppend, RecordPlan, StartFifty, ReadEvent, Finish, Resolve
  <2>3. CASE ActStep(w)
    BY <2>3 DEF ActStep, BeginReceipt, BeginRefused, SendCheck, PutWinner, PutRefused,
       PutLost, Settle, SettleLost
  <2> QED BY <1>6, <2>1, <2>2, <2>3 DEF WorkerStep
<1>7. ASSUME NEW s \in StaffOps, StaffStep(s) PROVE game'.round = game.round
  BY <1>7 DEF StaffStep, QueueBegin, QueueEnd, QueueNotSent, QueueListen,
     QueueUnchanged, QueueChanged, CrashStaff
<1>8. ASSUME NEW w \in Workers, CrashWorker(w) PROVE game' = game
  BY <1>8 DEF CrashWorker
<1>9. CASE GameStep
  BY <1>0, <1>9 DEF GameStep, ScoreRises, NextRound, SettingsSave, RotationSave
<1> QED BY <1>0, <1>1, <1>2, <1>3, <1>4, <1>5, <1>6, <1>7, <1>8, <1>9 DEF Next

\* An outcome is stored together with the end of the ballot.
OutcomesKept == \A v \in Votes :
  outcome'[v] # outcome[v] =>
    /\ voteState[v] \in ActiveStates
    /\ outcome'[v] = "refused" => voteState'[v] = "cancelled"
LEMMA OutcomeOnEnd ==
  ASSUME IInv, [Next]_vars
  PROVE  OutcomesKept
<1> USE DEF IInv, TypeOK, StateTypes, AutomationTypes, OutcomesKept, ActiveStates, dbVars,
    planVars, tallyVars, autoVars, auditVars, worldVars, workVars, staffVars,
    historyVars, WorkerOnly, StateOnly, OpenerOnly
<1>1. CASE UNCHANGED vars BY <1>1 DEF vars
<1>2. ASSUME NEW on \in BOOLEAN, SavePolicy(on) PROVE OutcomesKept
  BY <1>2 DEF SavePolicy
<1>3. ASSUME NEW v \in Votes, OpenerStep(v) PROVE OutcomesKept
  BY <1>3 DEF OpenerStep, PrepareManual, CreateManual, RefuseManual, Published,
     PublishUnconfirmed, ConfirmPublished, RecheckPolicy, RecheckUnreadable, UndoOpen,
     FailOpen, CrashOpener, Publish
<1>4. ASSUME NEW v \in Votes, VoteStep(v) PROVE OutcomesKept
  BY <1>4 DEF VoteStep, Cast, Expire, StaffClose
<1>5. ASSUME NEW w \in Workers, NEW v \in Votes, TickStep(w, v) PROVE OutcomesKept
  BY <1>5 DEF TickStep, Recover, CancelExpired, ClaimExpired, Observe, EvaluateOpen,
     ReviewRead
<1>6. ASSUME NEW w \in Workers, WorkerStep(w) PROVE OutcomesKept
  <2>1. CASE OpenTickStep(w)
    BY <2>1 DEF OpenTickStep, Confirm, CreateAutomatic, RefuseAutomatic, EndOpening
  <2>2. CASE Finish(w)
    BY <2>2 DEF Finish, SetState, Ending, Finishable, Control, Sound
  <2>3. CASE Resolve(w)
    BY <2>3 DEF Resolve, SetState, Control, Sound
  <2>4. CASE CloseStep(w) /\ ~Finish(w) /\ ~Resolve(w)
    BY <2>4 DEF CloseStep, CancelObserved, ObserveScore, ClaimAtScore, CloseUndecided,
       CheckGame, CloseUnsafe, RecheckBallot, YieldToStaff, StaffClear, AlreadyNext,
       WouldAppend, RecordPlan, StartFifty, ReadEvent
  <2>5. CASE ActStep(w)
    BY <2>5 DEF ActStep, BeginReceipt, BeginRefused, SendCheck, PutWinner, PutRefused,
       PutLost, Settle, SettleLost
  <2> QED BY <1>6, <2>1, <2>2, <2>3, <2>4, <2>5 DEF WorkerStep
<1>7. ASSUME NEW s \in StaffOps, StaffStep(s) PROVE OutcomesKept
  BY <1>7 DEF StaffStep, QueueBegin, QueueEnd, QueueNotSent, QueueListen,
     QueueUnchanged, QueueChanged, CrashStaff
<1>8. ASSUME NEW w \in Workers, CrashWorker(w) PROVE OutcomesKept
  BY <1>8 DEF CrashWorker
<1>9. CASE GameStep
  BY <1>9 DEF GameStep, ScoreRises, NextRound, SettingsSave, RotationSave
<1> QED BY <1>1, <1>2, <1>3, <1>4, <1>5, <1>6, <1>7, <1>8, <1>9 DEF Next

\* An ended ballot keeps its state, and no ballot's row is removed.
EndsKept == \A v \in Votes :
  /\ voteState[v] # "none" => voteState'[v] # "none"
  /\ voteState[v] \in FinalStates => voteState'[v] = voteState[v]
LEMMA FinalIsFinal ==
  ASSUME IInv, [Next]_vars
  PROVE  EndsKept
<1> USE DEF IInv, TypeOK, StateTypes, EndsKept, FinalStates, VoteStates, ActiveStates
<1>1. PromiseStep BY StepPromise
<1>2. CASE UNCHANGED Promise!vars BY <1>2 DEF Promise!vars
<1>3. ASSUME NEW b \in Votes, Promise!Create(b) \/ Promise!Open(b) \/ Promise!Count(b)
                              \/ Promise!Doubt(b) \/ Promise!Withdraw(b)
      PROVE  EndsKept
  BY <1>3 DEF Promise!Create, Promise!Open, Promise!Count, Promise!Doubt,
     Promise!Withdraw, Promise!Become
<1>4. ASSUME NEW b \in Votes, NEW r \in Promise!Results, Promise!Conclude(b, r)
      PROVE  EndsKept
  BY <1>4 DEF Promise!Conclude, Promise!Become, Promise!Results
<1>5. ASSUME NEW b \in Votes, NEW u \in Users, NEW c \in Choices, Promise!Vote(b, u, c)
      PROVE  EndsKept
  BY <1>5 DEF Promise!Vote
<1> QED BY <1>1, <1>2, <1>3, <1>4, <1>5 DEF PromiseStep, Promise!Next

-------------------------------------------------------------------------------
(* When an automatic ballot may open.                                        *)

\* Where the newest automatic ballots stand depends on the ballots up to there only.
LEMMA RecentKept ==
  ASSUME PlanTypes, NEW n \in 0 .. Len(order),
         \A i \in 1 .. n : order'[i] = order[i]
  PROVE  Recent(n)' = Recent(n)
<1>1. \A i \in 1 .. n : {j \in i .. n : order'[j] \in Automatic}
                          = {j \in i .. n : order[j] \in Automatic}
  OBVIOUS
<1> QED BY <1>1 DEF Recent

\* A run of refusals that is one after a step over settled ballots was one before it.
LEMMA RunKept ==
  ASSUME IInv, [Next]_vars, NEW n \in 0 .. Len(order), NEW version,
         \A i \in 1 .. n : /\ order'[i] = order[i] /\ row'[order[i]] = row[order[i]]
                           /\ voteState[order[i]] \notin ActiveStates,
         RefusedRun(n, version)'
  PROVE  RefusedRun(n, version)
<1>1. Recent(n)' = Recent(n) BY RecentKept DEF IInv, TypeOK
<1>2. \A i \in Recent(n) : i \in 1 .. n /\ order[i] \in Votes
  BY DEF Recent, IInv, TypeOK, PlanTypes
<1>3. \A i \in Recent(n) : outcome'[order[i]] = outcome[order[i]]
  BY <1>2, OutcomeOnEnd DEF OutcomesKept
<1> QED BY <1>1, <1>2, <1>3 DEF RefusedRun

\* An existing ballot that is not among the unfinished has ended.
LEMMA EndedOrActive ==
  ASSUME TypeOK
  PROVE  \A v \in Votes : voteState[v] # "none" /\ voteState[v] \notin ActiveStates
                            => voteState[v] \in FinalStates
BY DEF TypeOK, StateTypes, FinalStates

\* A step that opens nothing keeps OrderInv.
LEMMA NoneOpensKeeps ==
  ASSUME IInv, OrderInv, [Next]_vars, NoneOpens
  PROVE  OrderInv'
<1> USE DEF IInv, TypeOK, PlanTypes, NoneOpens, planVars
<1>1. EndsKept /\ OutcomesKept /\ game'.round >= game.round
  BY FinalIsFinal, OutcomeOnEnd, RoundRises
<1>2. \A i \in 1 .. Len(order) : order[i] \in Votes OBVIOUS
<1>3. RowsPast'
  <2>1. TypeOK' BY StepTypes
  <2> QED BY <1>1, <2>1, BoundsAssumption DEF OrderInv, RowsPast, WorldTypes, Rounds, Rows
<1>4. Listed' /\ EarlierEnded'
  BY <1>1, <1>2 DEF OrderInv, Listed, EarlierEnded, EndsKept
<1>5. RefusedEnds'
  BY <1>1 DEF OrderInv, RefusedEnds, OutcomesKept, EndsKept, FinalStates, VoteStates,
     ActiveStates
<1>6. OncePerRound' BY DEF OrderInv, OncePerRound
<1>7. BrakeHolds'
  <2>1. SUFFICES ASSUME NEW n \in 1 .. Len(order), order[n] \in Automatic,
                        RefusedRun(n - 1, row[order[n]].version)'
                 PROVE  FALSE
    BY DEF BrakeHolds, RefusedRun
  <2>2. \A i \in 1 .. n - 1 : voteState[order[i]] \notin ActiveStates
    BY DEF OrderInv, EarlierEnded, FinalStates
  <2>3. RefusedRun(n - 1, row[order[n]].version) BY <2>1, <2>2, RunKept
  <2> QED BY <2>1, <2>3 DEF OrderInv, BrakeHolds, RefusedRun
<1>8. ASSUME NEW w \in Workers, pc'[w] \in OpenSteps
      PROVE  OpensSound(w)'
  <2> DEFINE v == cur[w] l == seen[w].latest
  <2>1. /\ pc[w] \in OpenSteps /\ cur'[w] = v /\ seen'[w].latest = l /\ Latest' = Latest
    BY <1>8 DEF Latest
  <2>2. l \in Votes => voteState'[l] # "none" /\ row'[l].round < row'[v].round
    BY <1>1, <2>1 DEF OrderInv, OpensSound, EndsKept
  <2>3. ASSUME l = Latest
        PROVE  Active' = {} /\ ~RefusedRun(Len(order), row[v].version)'
    <3>1. Active = {} /\ ~RefusedRun(Len(order), row[v].version)
      BY <2>1, <2>3 DEF OrderInv, OpensSound
    <3>2. Active' = {} BY <3>1 DEF Active
    <3>3. \A i \in 1 .. Len(order) : voteState[order[i]] \notin ActiveStates
      BY <1>2, <3>1 DEF Active
    <3>4. Len(order) \in 0 .. Len(order) OBVIOUS
    <3>5. \A n \in 0 .. Len(order) : n = Len(order) =>
            ~RefusedRun(n, row[v].version)'
      <4> SUFFICES ASSUME RefusedRun(Len(order), row[v].version)' PROVE FALSE
        BY <3>4
      <4>1. row'[v] = row[v] /\ Len(order') = Len(order) OBVIOUS
      <4>2. RefusedRun(Len(order), row[v].version) BY <2>1, <3>3, <3>4, <4>1, RunKept
      <4> QED BY <3>1, <4>2
    <3> QED BY <3>2, <3>4, <3>5
  <2> QED BY <2>1, <2>2, <2>3 DEF OpensSound
<1>9. \A w \in Workers : OpensSound(w)' BY <1>8 DEF OpensSound
<1> QED BY <1>3, <1>4, <1>5, <1>6, <1>7, <1>9 DEF OrderInv

\* What the list says of its ballots holds of a step that leaves the list alone and
\* plans only a ballot that is not on it.
LEMMA PlanKeeps ==
  ASSUME IInv, OrderInv, [Next]_vars, UNCHANGED <<order, voteState, outcome, game>>,
         NEW v \in Votes, voteState[v] = "none",
         \E n \in Nat : row' = [row EXCEPT ![v] = Snapshot(n)]
  PROVE  /\ RowsPast' /\ Listed' /\ EarlierEnded' /\ RefusedEnds'
         /\ OncePerRound' /\ BrakeHolds'
         /\ row'[v].round = game.round
         /\ \A x \in Votes : x # v => row'[x] = row[x]
         /\ \A i \in 1 .. Len(order) : order[i] \in Votes \ {v}
         /\ \A n \in Nat : row' = [row EXCEPT ![v] = Snapshot(n)] => row'[v].version = n
<1> USE DEF IInv, TypeOK, PlanTypes
<1>1. /\ row'[v].round = game.round
      /\ \A x \in Votes : x # v => row'[x] = row[x]
      /\ \A n \in Nat : row' = [row EXCEPT ![v] = Snapshot(n)] => row'[v].version = n
  BY DEF Snapshot
<1>2. \A i \in 1 .. Len(order) : order[i] \in Votes \ {v}
  BY DEF OrderInv, Listed
<1>3. RowsPast'
  <2>1. game.round \in Nat BY BoundsAssumption DEF WorldTypes, Rounds
  <2> QED BY <1>1, <2>1 DEF OrderInv, RowsPast
<1>4. Listed' /\ EarlierEnded' /\ RefusedEnds'
  BY DEF OrderInv, Listed, EarlierEnded, RefusedEnds
<1>5. OncePerRound' BY <1>1, <1>2 DEF OrderInv, OncePerRound
<1>6. BrakeHolds'
  <2>1. SUFFICES ASSUME NEW n \in 1 .. Len(order), order[n] \in Automatic,
                        RefusedRun(n - 1, row[order[n]].version)'
                 PROVE  FALSE
    BY DEF BrakeHolds, RefusedRun
  <2>2. row'[order[n]] = row[order[n]] BY <1>1, <1>2
  <2>3. \A i \in 1 .. n - 1 : /\ voteState[order[i]] \notin ActiveStates
                              /\ row'[order[i]] = row[order[i]]
    BY <1>1, <1>2 DEF OrderInv, EarlierEnded, FinalStates
  <2>4. RefusedRun(n - 1, row[order[n]].version) BY <2>1, <2>2, <2>3, RunKept
  <2> QED BY <2>1, <2>4 DEF OrderInv, BrakeHolds, RefusedRun
<1> QED BY <1>1, <1>2, <1>3, <1>4, <1>5, <1>6

\* A worker that was about to open a ballot still is, on what it read.
LEMMA StillOpens ==
  ASSUME IInv, OrderInv, [Next]_vars, UNCHANGED <<order, voteState, outcome>>,
         NEW w \in Workers, pc[w] \in OpenSteps, UNCHANGED <<pc[w], cur[w], seen[w]>>,
         \A x \in Votes : x = cur[w] \/ voteState[x] # "none" => row'[x] = row[x]
  PROVE  OpensSound(w)'
<1> USE DEF IInv, TypeOK, PlanTypes
<1>1. cur[w] \in Votes BY DEF Control, Sound, OpenSteps
<1>2. Latest' = Latest /\ Active' = Active BY DEF Latest, Active
<1>3. \A i \in 1 .. Len(order) : order[i] \in Votes /\ row'[order[i]] = row[order[i]]
  BY DEF OrderInv, Listed
<1>4. CASE seen[w].latest = Latest
  <2>1. Active = {} /\ ~RefusedRun(Len(order), row[cur[w]].version)
    BY <1>4 DEF OrderInv, OpensSound
  <2>2. \A i \in 1 .. Len(order) : voteState[order[i]] \notin ActiveStates
    BY <1>3, <2>1 DEF Active
  <2>3. ASSUME RefusedRun(Len(order), row[cur[w]].version)' PROVE FALSE
    <3>1. row'[cur[w]] = row[cur[w]] /\ Len(order) \in 0 .. Len(order) BY <1>1
    <3>2. RefusedRun(Len(order), row[cur[w]].version)
      BY <1>3, <2>2, <2>3, <3>1, RunKept
    <3> QED BY <2>1, <3>2
  <2> QED BY <1>1, <1>2, <2>1, <2>3 DEF OpensSound, OrderInv
<1>5. CASE seen[w].latest # Latest BY <1>1, <1>2, <1>5 DEF OpensSound, OrderInv
<1> QED BY <1>4, <1>5

\* A person's start request keeps OrderInv.
LEMMA PrepareKeeps ==
  ASSUME IInv, OrderInv, [Next]_vars, NEW v \in Votes, PrepareManual(v)
  PROVE  OrderInv'
<1> USE DEF PrepareManual, autoVars, worldVars, workVars, IInv
<1>1. row' = [row EXCEPT ![v] = Snapshot(0)] OBVIOUS
<1>2. /\ RowsPast' /\ Listed' /\ EarlierEnded' /\ RefusedEnds'
      /\ OncePerRound' /\ BrakeHolds'
      /\ \A x \in Votes : x # v => row'[x] = row[x]
  BY <1>1, PlanKeeps
<1>3. ASSUME NEW w \in Workers, pc[w] \in OpenSteps PROVE OpensSound(w)'
  <2>1. cur[w] # v BY <1>3, VotesAssumption DEF Control, FreshAuto, OpenSteps
  <2> QED BY <1>2, <1>3, <2>1, StillOpens
<1>4. \A w \in Workers : OpensSound(w)' BY <1>3 DEF OpensSound
<1> QED BY <1>2, <1>4 DEF OrderInv

\* A worker that decides to open a ballot read a newest ballot of an earlier round, with
\* every ballot ended and no run of refusals.
LEMMA EvaluateKeeps ==
  ASSUME IInv, OrderInv, [Next]_vars, NEW w \in Workers, NEW v \in Votes,
         EvaluateOpen(w, v)
  PROVE  OrderInv'
<1> USE DEF EvaluateOpen, Take, autoVars, worldVars, IInv, TypeOK
<1>1. policy.version \in Nat /\ row' = [row EXCEPT ![v] = Snapshot(policy.version)]
  BY DEF StateTypes
<1>2. /\ RowsPast' /\ Listed' /\ EarlierEnded' /\ RefusedEnds'
      /\ OncePerRound' /\ BrakeHolds'
      /\ row'[v].round = game.round /\ row'[v].version = policy.version
      /\ \A x \in Votes : x # v => row'[x] = row[x]
      /\ \A i \in 1 .. Len(order) : order[i] \in Votes \ {v}
  BY <1>1, PlanKeeps, ZenonT(60)
<1>3. ASSUME NEW x \in Workers, x # w, pc'[x] \in OpenSteps PROVE OpensSound(x)'
  <2>1. UNCHANGED <<pc[x], cur[x], seen[x]>> BY <1>3 DEF WorkTypes
  <2> QED BY <1>2, <1>3, <2>1, StillOpens
<1>4. OpensSound(w)'
  <2>1. cur'[w] = v /\ seen'[w].latest = Latest /\ Latest' = Latest
    BY DEF WorkTypes, Reading, Latest
  <2>2. ASSUME Latest \in Votes
        PROVE  voteState'[Latest] # "none" /\ row'[Latest].round < row'[v].round
    <3>1. order # <<>> /\ Latest = order[Len(order)] /\ Len(order) \in 1 .. Len(order)
      BY <2>2, VotesAssumption DEF Latest, PlanTypes, Votes
    <3>2. voteState[Latest] # "none" /\ Latest # v BY <3>1 DEF OrderInv, Listed
    <3>3. row[Latest].round <= game.round /\ row[Latest].round # game.round
      BY <2>2, VotesAssumption DEF OrderInv, RowsPast, BallotedThisRound, Votes
    <3>4. row[Latest].round \in Int /\ game.round \in Int
      BY <2>2, BoundsAssumption DEF PlanTypes, Rows, Rounds, WorldTypes
    <3> QED BY <1>2, <2>2, <3>2, <3>3, <3>4
  <2>3. Active' = {} BY DEF Active
  <2>4. ASSUME RefusedRun(Len(order), row[v].version)' PROVE FALSE
    <3>1. \A i \in 1 .. Len(order) : /\ order[i] \in Votes
                                     /\ voteState[order[i]] \notin ActiveStates
                                     /\ row'[order[i]] = row[order[i]]
      BY <1>2 DEF Active
    <3>2. Len(order) \in 0 .. Len(order) BY DEF PlanTypes
    <3>3. RefusedRun(Len(order), policy.version) BY <1>2, <2>4, <3>1, <3>2, RunKept
    <3>4. \A i \in Recent(Len(order)) : i \in 1 .. Len(order) BY DEF Recent
    <3>5. Braked BY <3>1, <3>3, <3>4 DEF Braked, RefusedRun, OrderInv, RefusedEnds
    <3> QED BY <3>5
  <2> QED BY <2>1, <2>2, <2>3, <2>4 DEF OpensSound
<1>5. \A x \in Workers : OpensSound(x)' BY <1>3, <1>4 DEF OpensSound
<1> QED BY <1>2, <1>5 DEF OrderInv

\* Recording a ballot that was planned in a later round than the newest one, and after
\* no run of refusals, keeps OrderInv.
LEMMA RecordKeeps ==
  ASSUME IInv, OrderInv, [Next]_vars, UNCHANGED <<row, outcome, game>>,
         NEW v \in Votes, voteState[v] = "none", Record(v),
         v \in Automatic => /\ Latest \in Votes => row[Latest].round < row[v].round
                            /\ ~RefusedRun(Len(order), row[v].version),
         \A w \in Workers : pc'[w] \in OpenSteps =>
           pc[w] \in OpenSteps /\ UNCHANGED <<cur[w], seen[w]>>
  PROVE  OrderInv'
<1> USE DEF IInv, TypeOK, PlanTypes, StateTypes, Record, SetState
<1> DEFINE n == Len(order)
<1>1. /\ n \in Nat /\ Len(order') = n + 1 /\ order'[n + 1] = v
      /\ \A i \in 1 .. n : order'[i] = order[i] /\ order[i] \in Votes
  OBVIOUS
<1>2. /\ voteState'[v] = "publishing"
      /\ \A x \in Votes : x # v => voteState'[x] = voteState[x]
  OBVIOUS
<1>3. \A i \in 1 .. n : /\ order[i] # v /\ voteState[order[i]] # "none"
                        /\ voteState[order[i]] \notin ActiveStates
                        /\ voteState[order[i]] \in FinalStates
  BY <1>1, EndedOrActive DEF OrderInv, Listed, Active
<1>4. RowsPast' BY DEF OrderInv, RowsPast
<1>5. Listed' BY <1>1, <1>2, <1>3 DEF Listed
<1>6. EarlierEnded' BY <1>1, <1>2, <1>3 DEF EarlierEnded
<1>7. RefusedEnds' BY <1>2 DEF OrderInv, RefusedEnds
<1>8. OncePerRound'
  <2>1. ASSUME NEW i \in 1 .. Len(order') - 1, order'[i + 1] \in Automatic
        PROVE  row'[order'[i]].round < row'[order'[i + 1]].round
    <3>1. CASE i < n BY <1>1, <2>1, <3>1 DEF OrderInv, OncePerRound
    <3>2. CASE i = n
      <4>1. Latest = order[n] /\ Latest \in Votes BY <1>1, <3>2 DEF Latest
      <4> QED BY <1>1, <2>1, <3>2, <4>1
    <3> QED BY <1>1, <3>1, <3>2
  <2> QED BY <2>1 DEF OncePerRound
<1>9. BrakeHolds'
  <2>1. SUFFICES ASSUME NEW k \in 1 .. Len(order'), order'[k] \in Automatic,
                        RefusedRun(k - 1, row[order[k]].version)'
                 PROVE  FALSE
    BY DEF BrakeHolds, RefusedRun
  <2>2. \A i \in 1 .. k - 1 : /\ order'[i] = order[i] /\ row'[order[i]] = row[order[i]]
                              /\ voteState[order[i]] \notin ActiveStates
    BY <1>1, <1>3
  <2>3. k - 1 \in 0 .. n /\ order'[k] \in Votes /\ row' = row BY <1>1
  <2>4. RefusedRun(k - 1, row[order'[k]].version)
    <3>1. ASSUME NEW version, version = row[order'[k]].version,
                 RefusedRun(k - 1, version)'
          PROVE  RefusedRun(k - 1, version)
      BY <2>2, <2>3, <3>1, RunKept
    <3> QED BY <2>1, <2>3, <3>1
  <2>5. CASE k <= n BY <1>1, <2>1, <2>4, <2>5 DEF OrderInv, BrakeHolds, RefusedRun
  <2>6. CASE k = n + 1 BY <1>1, <2>1, <2>4, <2>6
  <2> QED BY <1>1, <2>5, <2>6
<1>10. ASSUME NEW w \in Workers, pc'[w] \in OpenSteps PROVE OpensSound(w)'
  <2> DEFINE l == seen[w].latest
  <2>1. pc[w] \in OpenSteps /\ cur'[w] = cur[w] /\ seen'[w] = seen[w] /\ OpensSound(w)
    BY <1>10 DEF OrderInv
  <2>2. Latest' = v BY <1>1 DEF Latest
  <2>3. l \in Votes => /\ voteState'[l] # "none"
                       /\ row'[l].round < row'[cur[w]].round
    BY <1>2, <2>1 DEF OpensSound
  <2>4. l # v BY <2>1 DEF OpensSound
  <2> QED BY <2>1, <2>2, <2>3, <2>4 DEF OpensSound
<1>11. \A w \in Workers : OpensSound(w)' BY <1>10 DEF OpensSound
<1> QED BY <1>4, <1>5, <1>6, <1>7, <1>8, <1>9, <1>11 DEF OrderInv

\* Every step keeps OrderInv.
LEMMA OrderStep ==
  ASSUME IInv, OrderInv, [Next]_vars
  PROVE  OrderInv'
<1> USE DEF IInv, OpenSteps
<1>1. CASE NoneOpens BY <1>1, NoneOpensKeeps
<1>2. ASSUME NEW v \in Votes, PrepareManual(v) PROVE OrderInv'
  BY <1>2, PrepareKeeps
<1>3. ASSUME NEW w \in Workers, NEW v \in Votes, EvaluateOpen(w, v) PROVE OrderInv'
  BY <1>3, EvaluateKeeps
<1>4. ASSUME NEW v \in Votes, CreateManual(v) PROVE OrderInv'
  <2>1. v \notin Automatic /\ voteState[v] = "none"
    BY <1>4, VotesAssumption DEF CreateManual, Control, FreshManual
  <2> QED
    BY <1>4, <2>1, RecordKeeps DEF CreateManual, autoVars, worldVars, workVars
<1>5. ASSUME NEW w \in Workers, CreateAutomatic(w) PROVE OrderInv'
  <2> DEFINE v == cur[w]
  <2>1. v \in Votes /\ voteState[v] = "none" /\ OpensSound(w) /\ pc[w] \in OpenSteps
    BY <1>5 DEF CreateAutomatic, Control, FreshAuto, Votes, OrderInv
  <2>2. /\ Latest \in Votes => row[Latest].round < row[v].round
        /\ ~RefusedRun(Len(order), row[v].version)
    BY <1>5, <2>1 DEF CreateAutomatic, MayInsert, OpensSound
  <2>3. \A x \in Workers : pc'[x] \in OpenSteps =>
          pc[x] \in OpenSteps /\ UNCHANGED <<cur[x], seen[x]>>
    BY <1>5 DEF CreateAutomatic, AtStep, TypeOK, WorkTypes
  <2> QED
    BY <1>5, <2>1, <2>2, <2>3, RecordKeeps DEF CreateAutomatic, autoVars, worldVars
<1> QED BY <1>1, <1>2, <1>3, <1>4, <1>5, OpensOrNot

\* No ballot exists at first.
LEMMA OrderInit == Init => OrderInv
BY BoundsAssumption DEF Init, OrderInv, RowsPast, Listed, EarlierEnded, RefusedEnds,
   OpensSound, OpenSteps, OncePerRound, BrakeHolds, NoRow, GameOf

LEMMA OrderInductive == Spec => []OrderInv
<1>1. IInv /\ OrderInv /\ [Next]_vars => OrderInv' BY OrderStep
<1> QED BY OrderInit, <1>1, Inductive, PTL DEF Spec

\* However slowly a worker opens the ballot it planned, and whoever opens one meanwhile,
\* an automatic ballot is of a later round than the ballot before it.
THEOREM OneBallotPerRound == Spec => []OncePerRound
<1>1. OrderInv => OncePerRound BY DEF OrderInv
<1> QED BY <1>1, OrderInductive, PTL

\* No automatic ballot is ever recorded behind RefusalBrake refusals in a row under the
\* saved controls it was planned on, for any brake, any processes and any saves.
THEOREM RefusalsBrake == Spec => []BrakeHolds
<1>1. OrderInv => BrakeHolds BY DEF OrderInv
<1> QED BY <1>1, OrderInductive, PTL

\* A worker that has compared the game with its ballot still knows what it read: any
\* write since then has raised the revision.
CheckedSteps == {"recheck", "staff", "plan", "begin", "send", "put"}
ReadsInv == \A w \in Workers : pc[w] \in CheckedSteps =>
  /\ seen[w].revision <= game.revision
  /\ seen[w].revision = game.revision => seen[w].rotation = game.rotation
GameAges == \/ game'.revision = game.revision /\ game'.rotation = game.rotation
            \/ game'.revision = game.revision + 1
\* A worker that does not look at the game keeps what it read, or is done with it.
ReadKept(w) == pc'[w] \in CheckedSteps => pc[w] \in CheckedSteps /\ seen'[w] = seen[w]

-------------------------------------------------------------------------------
(* What a winner replaces in the rotation.                                   *)

\* Every write to the rotation raises the revision by one.
LEMMA GameWrites ==
  ASSUME IInv, [Next]_vars
  PROVE  GameAges
<1> USE DEF GameAges, dbVars, worldVars, WorkerOnly, StateOnly, OpenerOnly, GameOf,
    PutEntry
<1>1. CASE UNCHANGED vars BY <1>1 DEF vars
<1>2. ASSUME NEW on \in BOOLEAN, SavePolicy(on) PROVE game' = game
  BY <1>2 DEF SavePolicy
<1>3. ASSUME NEW v \in Votes, OpenerStep(v) PROVE game' = game
  BY <1>3 DEF OpenerStep, PrepareManual, CreateManual, RefuseManual, Published,
     PublishUnconfirmed, ConfirmPublished, RecheckPolicy, RecheckUnreadable, UndoOpen,
     FailOpen, CrashOpener, Publish
<1>4. ASSUME NEW v \in Votes, VoteStep(v) PROVE game' = game
  BY <1>4 DEF VoteStep, Cast, Expire, StaffClose
<1>5. ASSUME NEW w \in Workers, NEW v \in Votes, TickStep(w, v) PROVE game' = game
  BY <1>5 DEF TickStep, Recover, CancelExpired, ClaimExpired, Observe, EvaluateOpen,
     ReviewRead
<1>6. ASSUME NEW w \in Workers, WorkerStep(w) PROVE GameAges
  <2>1. CASE OpenTickStep(w)
    BY <2>1 DEF OpenTickStep, Confirm, CreateAutomatic, RefuseAutomatic, EndOpening
  <2>2. CASE CloseStep(w)
    BY <2>2 DEF CloseStep, CancelObserved, ObserveScore, ClaimAtScore, CloseUndecided,
       CheckGame, CloseUnsafe, RecheckBallot, YieldToStaff, StaffClear, AlreadyNext,
       WouldAppend, RecordPlan, StartFifty, ReadEvent, Finish, Resolve
  <2>3. CASE ActStep(w)
    BY <2>3 DEF ActStep, BeginReceipt, BeginRefused, SendCheck, PutWinner, PutRefused,
       PutLost, Settle, SettleLost
  <2> QED BY <1>6, <2>1, <2>2, <2>3 DEF WorkerStep
<1>7. ASSUME NEW s \in StaffOps, StaffStep(s) PROVE GameAges
  BY <1>7 DEF StaffStep, QueueBegin, QueueEnd, QueueNotSent, QueueListen,
     QueueUnchanged, QueueChanged, CrashStaff
<1>8. ASSUME NEW w \in Workers, CrashWorker(w) PROVE game' = game
  BY <1>8 DEF CrashWorker
<1>9. CASE GameStep
  BY <1>9 DEF GameStep, ScoreRises, NextRound, SettingsSave, RotationSave
<1> QED BY <1>1, <1>2, <1>3, <1>4, <1>5, <1>6, <1>7, <1>8, <1>9 DEF Next

\* Only CheckGame reads the rotation a worker goes on with.
LEMMA ReadOrKept ==
  ASSUME IInv, [Next]_vars, NEW w \in Workers
  PROVE  ReadKept(w) \/ CheckGame(w)
<1> USE DEF IInv, TypeOK, WorkTypes, ReadKept, CheckedSteps, workVars, WorkerOnly,
    StateOnly, OpenerOnly
<1>1. CASE UNCHANGED vars BY <1>1 DEF vars
<1>2. ASSUME NEW on \in BOOLEAN, SavePolicy(on) PROVE ReadKept(w)
  BY <1>2 DEF SavePolicy
<1>3. ASSUME NEW v \in Votes, OpenerStep(v) PROVE ReadKept(w)
  BY <1>3 DEF OpenerStep, PrepareManual, CreateManual, RefuseManual, Published,
     PublishUnconfirmed, ConfirmPublished, RecheckPolicy, RecheckUnreadable, UndoOpen,
     FailOpen, CrashOpener, Publish
<1>4. ASSUME NEW v \in Votes, VoteStep(v) PROVE ReadKept(w)
  BY <1>4 DEF VoteStep, Cast, Expire, StaffClose
<1>5. ASSUME NEW x \in Workers, NEW v \in Votes, TickStep(x, v) PROVE ReadKept(w)
  BY <1>5 DEF TickStep, Recover, CancelExpired, ClaimExpired, Observe, EvaluateOpen,
     ReviewRead, Take, Count
<1>6. ASSUME NEW x \in Workers, WorkerStep(x) PROVE ReadKept(w) \/ CheckGame(w)
  <2>1. CASE OpenTickStep(x)
    BY <2>1 DEF OpenTickStep, Confirm, CreateAutomatic, RefuseAutomatic, EndOpening,
       Go, AtStep, Conclude, Release
  <2>2. CASE CloseStep(x)
    BY <2>2 DEF CloseStep, CancelObserved, ObserveScore, ClaimAtScore, CloseUndecided,
       CheckGame, CloseUnsafe, RecheckBallot, YieldToStaff, StaffClear, AlreadyNext,
       WouldAppend, RecordPlan, StartFifty, ReadEvent, Finish, Resolve, Count, Go,
       AtStep, Conclude, Release
  <2>3. CASE ActStep(x)
    BY <2>3 DEF ActStep, BeginReceipt, BeginRefused, SendCheck, PutWinner, PutRefused,
       PutLost, Settle, SettleLost, Go, AtStep, Conclude, Release
  <2> QED BY <1>6, <2>1, <2>2, <2>3 DEF WorkerStep
<1>7. ASSUME NEW s \in StaffOps, StaffStep(s) PROVE ReadKept(w)
  BY <1>7 DEF StaffStep, QueueBegin, QueueEnd, QueueNotSent, QueueListen,
     QueueUnchanged, QueueChanged, CrashStaff
<1>8. ASSUME NEW x \in Workers, CrashWorker(x) PROVE ReadKept(w)
  BY <1>8 DEF CrashWorker, Release
<1>9. CASE GameStep
  BY <1>9 DEF GameStep, ScoreRises, NextRound, SettingsSave, RotationSave
<1> QED BY <1>1, <1>2, <1>3, <1>4, <1>5, <1>6, <1>7, <1>8, <1>9 DEF Next

\* Every step keeps what the workers know of the rotation they read.
LEMMA ReadsStep ==
  ASSUME IInv, ReadsInv, [Next]_vars
  PROVE  ReadsInv'
<1> USE DEF IInv, TypeOK, WorldTypes, WorkTypes, Readings
<1>1. GameAges /\ game.revision \in Nat BY GameWrites
<1>2. ASSUME NEW w \in Workers, pc'[w] \in CheckedSteps
      PROVE  /\ seen'[w].revision <= game'.revision
             /\ seen'[w].revision = game'.revision => seen'[w].rotation = game'.rotation
  <2>1. CASE ReadKept(w)
    BY <1>1, <1>2, <2>1 DEF ReadKept, ReadsInv, GameAges
  <2>2. CASE CheckGame(w)
    BY <1>1, <2>2 DEF CheckGame, Reading, WorkerOnly, worldVars
  <2> QED BY <2>1, <2>2, ReadOrKept
<1> QED BY <1>2 DEF ReadsInv

LEMMA ReadsInductive == Spec => []ReadsInv
<1>1. Init => ReadsInv BY DEF Init, ReadsInv, CheckedSteps
<1>2. IInv /\ ReadsInv /\ [Next]_vars => ReadsInv' BY ReadsStep
<1> QED BY <1>1, <1>2, Inductive, PTL DEF Spec

\* The rotation a winner is written into is the one its close read, entry for entry,
\* whatever is saved, written or queued between the reading and the conditional write.
THEOREM OverwritesWhatItRead == Spec => NoBlindOverwrite
<1> DEFINE Seen == \A v \in Votes : wrote'[v] # wrote[v] =>
                     \E w \in Workers : cur[w] = v /\ game.rotation = seen[w].rotation
<1>1. ASSUME IInv, ReadsInv, [Next]_vars PROVE Seen
  <2>1. CASE NoWrite BY <2>1 DEF NoWrite
  <2>2. ASSUME NEW w \in Workers, BeginReceipt(w) PROVE Seen
    BY <2>2 DEF BeginReceipt, historyVars
  <2>3. ASSUME NEW w \in Workers, PutWinner(w) PROVE Seen
    <3>1. game.rotation = seen[w].rotation
      BY <1>1, <2>3 DEF PutWinner, IfMatch, ReadsInv, CheckedSteps
    <3>2. \A v \in Votes : wrote'[v] # wrote[v] => cur[w] = v
      BY <1>1, <2>3 DEF PutWinner, IInv, TypeOK, HistoryTypes
    <3> QED BY <3>1, <3>2
  <2> QED BY <1>1, <2>1, <2>2, <2>3, WriteOrNot
<1>2. IInv /\ ReadsInv /\ [Next]_vars => [Seen]_vars BY <1>1
<1> QED BY <1>2, Inductive, ReadsInductive, PTL DEF Spec, NoBlindOverwrite

\* A person's queue counts against the ballots that existed when its receipt was
\* recorded, until it is refused: a queue that counts has counted since its receipt.
SendsStarted == \A s \in StaffOps : staffPc[s] = "send" => staffOp[s] = "started"
HeedsBegun == \A v \in Votes : \A s \in heeded[v] : staffOp[s] # "none"
\* The steps a close takes only where no queue counted.
ClearSteps == {"plan", "begin", "send", "put"}
NoneHeeded(v) == heeded[v] \cap StaffQueues(v) = {}
ClearKnown == \A w \in Workers : pc[w] \in ClearSteps => NoneHeeded(cur[w])
StaffInv == SendsStarted /\ HeedsBegun /\ ClearKnown /\ StaffChoiceWins

\* What a step may do to people's queues: begin one, or end one that was begun.
QueuesAge == \A s \in StaffOps :
  /\ staffPc'[s] = "send" => staffOp'[s] = "started"
  /\ staffOp[s] # "none" => /\ since'[s] = since[s] /\ staffOp'[s] # "none"
                            /\ staffOp[s] = "failed" => staffOp'[s] = "failed"
\* A worker beyond the lookup of people's queues was there before, or finds none now.
ClearKept(w) == pc'[w] \in ClearSteps =>
  cur'[w] = cur[w] /\ (pc[w] \in ClearSteps \/ StaffClear(w))

-------------------------------------------------------------------------------
(* A person's queue wins.                                                    *)

LEMMA StaffMoves ==
  ASSUME IInv, SendsStarted, [Next]_vars
  PROVE  QueuesAge
<1> USE DEF IInv, TypeOK, StaffTypes, QueuesAge, SendsStarted, staffVars, WorkerOnly,
    StateOnly, OpenerOnly
<1>1. CASE UNCHANGED vars BY <1>1 DEF vars
<1>2. ASSUME NEW on \in BOOLEAN, SavePolicy(on) PROVE QueuesAge
  BY <1>2 DEF SavePolicy
<1>3. ASSUME NEW v \in Votes, OpenerStep(v) PROVE QueuesAge
  BY <1>3 DEF OpenerStep, PrepareManual, CreateManual, RefuseManual, Published,
     PublishUnconfirmed, ConfirmPublished, RecheckPolicy, RecheckUnreadable, UndoOpen,
     FailOpen, CrashOpener, Publish
<1>4. ASSUME NEW v \in Votes, VoteStep(v) PROVE QueuesAge
  BY <1>4 DEF VoteStep, Cast, Expire, StaffClose
<1>5. ASSUME NEW x \in Workers, NEW v \in Votes, TickStep(x, v) PROVE QueuesAge
  BY <1>5 DEF TickStep, Recover, CancelExpired, ClaimExpired, Observe, EvaluateOpen,
     ReviewRead
<1>6. ASSUME NEW x \in Workers, WorkerStep(x) PROVE QueuesAge
  <2>1. CASE OpenTickStep(x)
    BY <2>1 DEF OpenTickStep, Confirm, CreateAutomatic, RefuseAutomatic, EndOpening
  <2>2. CASE CloseStep(x)
    BY <2>2 DEF CloseStep, CancelObserved, ObserveScore, ClaimAtScore, CloseUndecided,
       CheckGame, CloseUnsafe, RecheckBallot, YieldToStaff, StaffClear, AlreadyNext,
       WouldAppend, RecordPlan, StartFifty, ReadEvent, Finish, Resolve
  <2>3. CASE ActStep(x)
    BY <2>3 DEF ActStep, BeginReceipt, BeginRefused, SendCheck, PutWinner, PutRefused,
       PutLost, Settle, SettleLost
  <2> QED BY <1>6, <2>1, <2>2, <2>3 DEF WorkerStep
<1>7. ASSUME NEW s \in StaffOps, StaffStep(s) PROVE QueuesAge
  <2>1. CASE QueueBegin(s) BY <2>1 DEF QueueBegin
  <2>2. CASE QueueListen(s) BY <2>2 DEF QueueListen
  <2>3. CASE CrashStaff(s) BY <2>3 DEF CrashStaff
  <2>4. CASE QueueNotSent(s) BY <2>4 DEF QueueNotSent, QueueEnd
  <2>5. ASSUME NEW e \in Maps, QueueUnchanged(s, e) \/ QueueChanged(s, e)
        PROVE  QueuesAge
    BY <2>5 DEF QueueUnchanged, QueueChanged, QueueEnd
  <2> QED BY <1>7, <2>1, <2>2, <2>3, <2>4, <2>5 DEF StaffStep
<1>8. ASSUME NEW x \in Workers, CrashWorker(x) PROVE QueuesAge
  BY <1>8 DEF CrashWorker
<1>9. CASE GameStep
  BY <1>9 DEF GameStep, ScoreRises, NextRound, SettingsSave, RotationSave
<1> QED BY <1>1, <1>2, <1>3, <1>4, <1>5, <1>6, <1>7, <1>8, <1>9 DEF Next

\* Which queues a close heeds is stored by its claim alone, in the claim of an open ballot.
LEMMA HeedOrKept ==
  ASSUME IInv, [Next]_vars
  PROVE  UNCHANGED heeded \/ CountedNow
<1> USE DEF IInv, dbVars, historyVars, WorkerOnly, StateOnly, OpenerOnly
<1>1. CASE UNCHANGED vars BY <1>1 DEF vars
<1>2. ASSUME NEW on \in BOOLEAN, SavePolicy(on) PROVE UNCHANGED heeded
  BY <1>2 DEF SavePolicy
<1>3. ASSUME NEW v \in Votes, OpenerStep(v) PROVE UNCHANGED heeded
  BY <1>3 DEF OpenerStep, PrepareManual, CreateManual, RefuseManual, Published,
     PublishUnconfirmed, ConfirmPublished, RecheckPolicy, RecheckUnreadable, UndoOpen,
     FailOpen, CrashOpener, Publish
<1>4. ASSUME NEW v \in Votes, VoteStep(v) PROVE UNCHANGED heeded
  BY <1>4 DEF VoteStep, Cast, Expire, StaffClose
<1>5. ASSUME NEW w \in Workers, NEW v \in Votes, TickStep(w, v)
      PROVE  UNCHANGED heeded \/ CountedNow
  <2>1. CASE ClaimExpired(w, v) BY <2>1 DEF ClaimExpired, CountedNow
  <2>2. CASE ~ClaimExpired(w, v)
    BY <1>5, <2>2 DEF TickStep, Recover, CancelExpired, Observe, EvaluateOpen,
       ReviewRead
  <2> QED BY <2>1, <2>2
<1>6. ASSUME NEW w \in Workers, WorkerStep(w) PROVE UNCHANGED heeded \/ CountedNow
  <2>1. CASE OpenTickStep(w)
    BY <2>1 DEF OpenTickStep, Confirm, CreateAutomatic, RefuseAutomatic, EndOpening
  <2>2. CASE ClaimAtScore(w)
    BY <2>2 DEF ClaimAtScore, CountedNow, Control, Sound
  <2>3. CASE CloseStep(w) /\ ~ClaimAtScore(w)
    BY <2>3 DEF CloseStep, CancelObserved, ObserveScore, CloseUndecided, CheckGame,
       CloseUnsafe, RecheckBallot, YieldToStaff, StaffClear, AlreadyNext, WouldAppend,
       RecordPlan, StartFifty, ReadEvent, Finish, Resolve
  <2>4. CASE ActStep(w)
    BY <2>4 DEF ActStep, BeginReceipt, BeginRefused, SendCheck, PutWinner, PutRefused,
       PutLost, Settle, SettleLost
  <2> QED BY <1>6, <2>1, <2>2, <2>3, <2>4 DEF WorkerStep
<1>7. ASSUME NEW s \in StaffOps, StaffStep(s) PROVE UNCHANGED heeded
  BY <1>7 DEF StaffStep, QueueBegin, QueueEnd, QueueNotSent, QueueListen,
     QueueUnchanged, QueueChanged, CrashStaff
<1>8. ASSUME NEW w \in Workers, CrashWorker(w) PROVE UNCHANGED heeded
  BY <1>8 DEF CrashWorker
<1>9. CASE GameStep
  BY <1>9 DEF GameStep, ScoreRises, NextRound, SettingsSave, RotationSave
<1> QED BY <1>1, <1>2, <1>3, <1>4, <1>5, <1>6, <1>7, <1>8, <1>9 DEF Next

\* A worker gets beyond the lookup through StaffClear only.
LEMMA ClearOrKept ==
  ASSUME IInv, [Next]_vars, NEW w \in Workers
  PROVE  ClearKept(w)
<1> USE DEF IInv, TypeOK, WorkTypes, ClearKept, ClearSteps, workVars, WorkerOnly,
    StateOnly, OpenerOnly
<1>1. CASE UNCHANGED vars BY <1>1 DEF vars
<1>2. ASSUME NEW on \in BOOLEAN, SavePolicy(on) PROVE ClearKept(w)
  BY <1>2 DEF SavePolicy
<1>3. ASSUME NEW v \in Votes, OpenerStep(v) PROVE ClearKept(w)
  BY <1>3 DEF OpenerStep, PrepareManual, CreateManual, RefuseManual, Published,
     PublishUnconfirmed, ConfirmPublished, RecheckPolicy, RecheckUnreadable, UndoOpen,
     FailOpen, CrashOpener, Publish
<1>4. ASSUME NEW v \in Votes, VoteStep(v) PROVE ClearKept(w)
  BY <1>4 DEF VoteStep, Cast, Expire, StaffClose
<1>5. ASSUME NEW x \in Workers, NEW v \in Votes, TickStep(x, v) PROVE ClearKept(w)
  BY <1>5 DEF TickStep, Recover, CancelExpired, ClaimExpired, Observe, EvaluateOpen,
     ReviewRead, Take, Count
<1>6. ASSUME NEW x \in Workers, WorkerStep(x) PROVE ClearKept(w)
  <2>1. CASE OpenTickStep(x)
    BY <2>1 DEF OpenTickStep, Confirm, CreateAutomatic, RefuseAutomatic, EndOpening,
       Go, AtStep, Conclude, Release
  <2>2. CASE CloseStep(x)
    BY <2>2 DEF CloseStep, CancelObserved, ObserveScore, ClaimAtScore, CloseUndecided,
       CheckGame, CloseUnsafe, RecheckBallot, YieldToStaff, StaffClear, AlreadyNext,
       WouldAppend, RecordPlan, StartFifty, ReadEvent, Finish, Resolve, Count, Go,
       AtStep, Conclude, Release
  <2>3. CASE ActStep(x)
    BY <2>3 DEF ActStep, BeginReceipt, BeginRefused, SendCheck, PutWinner, PutRefused,
       PutLost, Settle, SettleLost, Go, AtStep, Conclude, Release
  <2> QED BY <1>6, <2>1, <2>2, <2>3 DEF WorkerStep
<1>7. ASSUME NEW s \in StaffOps, StaffStep(s) PROVE ClearKept(w)
  BY <1>7 DEF StaffStep, QueueBegin, QueueEnd, QueueNotSent, QueueListen,
     QueueUnchanged, QueueChanged, CrashStaff
<1>8. ASSUME NEW x \in Workers, CrashWorker(x) PROVE ClearKept(w)
  BY <1>8 DEF CrashWorker, Release
<1>9. CASE GameStep
  BY <1>9 DEF GameStep, ScoreRises, NextRound, SettingsSave, RotationSave
<1> QED BY <1>1, <1>2, <1>3, <1>4, <1>5, <1>6, <1>7, <1>8, <1>9 DEF Next

\* A queue a close heeded and that counts now counted before the step as well.
LEMMA NoneHeededStays ==
  ASSUME IInv, StaffInv, QueuesAge, NEW v \in Votes, heeded'[v] = heeded[v],
         NoneHeeded(v)
  PROVE  NoneHeeded(v)'
<1>1. ASSUME NEW s \in heeded[v], s \in StaffQueues(v)' PROVE s \in StaffQueues(v)
  BY <1>1 DEF StaffQueues, QueuesAge, StaffInv, HeedsBegun, IInv, TypeOK, StaffTypes,
     HistoryTypes
<1> QED BY <1>1 DEF NoneHeeded

\* Every step keeps people's queues from being overwritten.
LEMMA StaffStepKeeps ==
  ASSUME IInv, WriteInv, StaffInv, [Next]_vars
  PROVE  StaffInv'
<1> USE DEF IInv
<1>1. QueuesAge /\ TypeOK' BY StaffMoves, StepTypes DEF StaffInv
<1>2. SendsStarted' BY <1>1 DEF QueuesAge, SendsStarted
<1>3. CASE UNCHANGED heeded
  <2>1. HeedsBegun'
    BY <1>1, <1>3 DEF StaffInv, HeedsBegun, QueuesAge, TypeOK, HistoryTypes
  <2>2. ClearKnown'
    <3>1. SUFFICES ASSUME NEW w \in Workers, pc'[w] \in ClearSteps
                   PROVE  NoneHeeded(cur[w])'
      BY DEF ClearKnown
    <3>2. cur'[w] = cur[w] /\ (pc[w] \in ClearSteps \/ StaffClear(w))
      BY <3>1, ClearOrKept DEF ClearKept
    <3>3. cur[w] \in Votes BY <3>2 DEF Control, Sound, ClearSteps, StaffClear
    <3>4. NoneHeeded(cur[w])
      BY <3>2 DEF StaffInv, ClearKnown, StaffClear, NoStaffQueue, NoneHeeded
    <3>5. \A v \in Votes : v = cur[w] => NoneHeeded(v)'
      BY <1>1, <1>3, <3>4, NoneHeededStays
    <3> QED BY <3>2, <3>3, <3>5
  <2>3. StaffChoiceWins'
    <3>1. ASSUME NEW v \in Votes, wrote'[v] > 0 PROVE NoneHeeded(v)
      <4>1. CASE wrote'[v] = wrote[v]
        BY <3>1, <4>1 DEF StaffInv, StaffChoiceWins, NoneHeeded
      <4>2. ASSUME NEW w \in Workers, PutWinner(w), wrote'[v] # wrote[v]
            PROVE  NoneHeeded(v)
        <5>1. cur[w] = v /\ pc[w] = "put" BY <4>2 DEF PutWinner, TypeOK, HistoryTypes
        <5> QED BY <5>1 DEF StaffInv, ClearKnown, ClearSteps
      <4>3. ASSUME NEW w \in Workers, BeginReceipt(w) PROVE wrote'[v] = wrote[v]
        BY <4>3 DEF BeginReceipt, historyVars
      <4> QED BY <4>1, <4>2, <4>3, WriteOrNot DEF NoWrite
    <3>2. \A v \in Votes : wrote'[v] > 0 => NoneHeeded(v)'
      BY <1>1, <1>3, <3>1, NoneHeededStays
    <3> QED BY <3>2 DEF StaffChoiceWins, NoneHeeded
  <2> QED BY <1>2, <2>1, <2>2, <2>3 DEF StaffInv
<1>4. ASSUME NEW b \in Votes, Count(b), UNCHANGED ballots PROVE StaffInv'
  <2>1. /\ heeded'[b] = StaffQueues(b) /\ voteState[b] = "open"
        /\ voteState' # voteState
        /\ \A v \in Votes : v # b => heeded'[v] = heeded[v]
    BY <1>4 DEF Count, SetState, TypeOK, StateTypes, HistoryTypes
  <2>2. wrote' = wrote
    BY <2>1, WriteOrNot DEF NoWrite, BeginReceipt, PutWinner, historyVars
  <2>3. wrote[b] = 0
    BY <2>1 DEF WriteInv, WrittenOnce, TypeOK, HistoryTypes, Control, HasWinner,
       WinnerPast, PastOpen, FinalStates, VoteStates, ActiveStates
  <2>4. HeedsBegun'
    BY <1>1, <2>1 DEF StaffInv, HeedsBegun, QueuesAge, StaffQueues, TypeOK, HistoryTypes
  <2>5. ClearKnown'
    <3>1. SUFFICES ASSUME NEW w \in Workers, pc'[w] \in ClearSteps
                   PROVE  NoneHeeded(cur[w])'
      BY DEF ClearKnown
    <3>2. cur'[w] = cur[w] /\ (pc[w] \in ClearSteps \/ StaffClear(w))
      BY <3>1, ClearOrKept DEF ClearKept
    <3>3. cur[w] \in Votes /\ voteState[cur[w]] \in PastOpen
      BY <3>2 DEF Control, Sound, ClearSteps, CloseSteps, StaffClear
    <3>4. NoneHeeded(cur[w])
      BY <3>2 DEF StaffInv, ClearKnown, StaffClear, NoStaffQueue, NoneHeeded
    <3>5. cur[w] # b
      BY <2>1, <3>3 DEF PastOpen, FinalStates, VoteStates, ActiveStates
    <3>6. \A v \in Votes : v = cur[w] => NoneHeeded(v)'
      BY <1>1, <2>1, <3>4, <3>5, NoneHeededStays
    <3> QED BY <3>2, <3>3, <3>6
  <2>6. StaffChoiceWins'
    <3>1. ASSUME NEW v \in Votes, wrote'[v] > 0 PROVE NoneHeeded(v)'
      <4>1. v # b /\ NoneHeeded(v)
        BY <2>2, <2>3, <3>1 DEF StaffInv, StaffChoiceWins, NoneHeeded
      <4> QED BY <1>1, <2>1, <4>1, NoneHeededStays
    <3> QED BY <3>1 DEF StaffChoiceWins, NoneHeeded
  <2> QED BY <1>2, <2>4, <2>5, <2>6 DEF StaffInv
<1> QED BY <1>3, <1>4, HeedOrKept DEF CountedNow

\* The single write and people's queues are kept together.
LEMMA StaffInductive == Spec => [](WriteInv /\ StaffInv)
<1>1. Init => WriteInv /\ StaffInv
  BY DEF Init, WriteInv, WrittenOnce, OneSender, SendsFirst, SendSteps, StaffInv,
     SendsStarted, HeedsBegun, ClearKnown, ClearSteps, StaffChoiceWins
<1>2. IInv /\ WriteInv /\ StaffInv /\ [Next]_vars => WriteInv' /\ StaffInv'
  BY WriteStep, StaffStepKeeps
<1> QED BY <1>1, <1>2, Inductive, PTL DEF Spec

\* A map a person queued between the opening of a ballot and the claim of its close is
\* never overwritten by the ballot, however the two interleave.
THEOREM PersonWins == Spec => []StaffChoiceWins
<1>1. StaffInv => StaffChoiceWins BY DEF StaffInv
<1> QED BY <1>1, StaffInductive, PTL

\* The winner of a ballot has been next in the round of the ballot, or its event exists.
Real(v) == /\ winner[v] # NoChoice
           /\ IF winner[v] = Fifty THEN v \in events
              ELSE <<row[v].round, winner[v]>> \in everNext
\* A worker whose step says that the winner is queued.
Claims(w) == \/ pc[w] \in {"finish", "resolve"} /\ conclusion[w] = "queued"
             \/ pc[w] = "settle" /\ conclusion[w] \in {"applied", "pending"}
\* An entry other than Base came into a rotation through a write.
Written(rotation) == \A r \in Rounds : rotation[r] # Base => <<r, rotation[r]>> \in everNext
ResultInv ==
  /\ Written(game.rotation)
  /\ \A w \in Workers : pc[w] \in CheckedSteps => Written(seen[w].rotation)
  /\ \A w \in Workers : Claims(w) => Real(cur[w])
  /\ \A v \in Votes : receipt[v] \in {"applied", "pending"} => Real(v)
  /\ \A v \in Votes : voteState[v] = "queued" => Real(v)

\* What a step does to the rotation, the receipts, the plans and the events.
RotationMoves ==
  \/ game'.rotation = game.rotation /\ UNCHANGED <<replaced, everNext>>
  \/ \E r \in Rounds, e \in Entries : PutEntry(r, e)
RecordsMove ==
  /\ events' = events \/ \E w \in Workers : StartFifty(w)
  /\ queue' = queue \/ \E w \in Workers : RecordPlan(w)
  /\ receipt' = receipt \/ \E w \in Workers : BeginReceipt(w) \/ Settle(w)
  /\ messageId \subseteq messageId' /\ closedBy \subseteq closedBy'
ClaimsKept(w) == Claims(w)' => Claims(w) /\ cur'[w] = cur[w]
\* The steps that conclude that a winner is queued.
Concludes(w) ==
  \/ AlreadyNext(w) \/ SendCheck(w) \/ PutWinner(w) \/ Settle(w) \/ StartFifty(w)
  \/ ReadEvent(w) \/ \E v \in Votes : ReviewRead(w, v)
QueuedMoves == \A v \in Votes : voteState'[v] = "queued" =>
  voteState[v] = "queued" \/ \E w \in Workers : cur[w] = v /\ Claims(w)

-------------------------------------------------------------------------------
(* What is said of a settled ballot.                                         *)

LEMMA RotationOrKept ==
  ASSUME IInv, [Next]_vars
  PROVE  RotationMoves
<1> USE DEF IInv, RotationMoves, dbVars, worldVars, historyVars, WorkerOnly, StateOnly,
    OpenerOnly, GameOf
<1>0. game.round \in Rounds /\ Maps \subseteq Entries
  BY DEF TypeOK, WorldTypes, Entries
<1>1. CASE UNCHANGED vars BY <1>1 DEF vars
<1>2. ASSUME NEW on \in BOOLEAN, SavePolicy(on) PROVE RotationMoves
  BY <1>2 DEF SavePolicy
<1>3. ASSUME NEW v \in Votes, OpenerStep(v) PROVE RotationMoves
  BY <1>3 DEF OpenerStep, PrepareManual, CreateManual, RefuseManual, Published,
     PublishUnconfirmed, ConfirmPublished, RecheckPolicy, RecheckUnreadable, UndoOpen,
     FailOpen, CrashOpener, Publish
<1>4. ASSUME NEW v \in Votes, VoteStep(v) PROVE RotationMoves
  BY <1>4 DEF VoteStep, Cast, Expire, StaffClose
<1>5. ASSUME NEW w \in Workers, NEW v \in Votes, TickStep(w, v) PROVE RotationMoves
  BY <1>5 DEF TickStep, Recover, CancelExpired, ClaimExpired, Observe, EvaluateOpen,
     ReviewRead
<1>6. ASSUME NEW w \in Workers, WorkerStep(w) PROVE RotationMoves
  <2>1. CASE OpenTickStep(w)
    BY <2>1 DEF OpenTickStep, Confirm, CreateAutomatic, RefuseAutomatic, EndOpening
  <2>2. CASE CloseStep(w)
    BY <2>2 DEF CloseStep, CancelObserved, ObserveScore, ClaimAtScore, CloseUndecided,
       CheckGame, CloseUnsafe, RecheckBallot, YieldToStaff, StaffClear, AlreadyNext,
       WouldAppend, RecordPlan, StartFifty, ReadEvent, Finish, Resolve
  <2>3. CASE PutWinner(w)
    <3>1. row[cur[w]].round \in Rounds /\ winner[cur[w]] \in Entries
      BY <1>0, <2>3 DEF PutWinner, Control, Sound, TypeOK, PlanTypes, Rows
    <3> QED BY <2>3, <3>1 DEF PutWinner
  <2>4. CASE ActStep(w) /\ ~PutWinner(w)
    BY <2>4 DEF ActStep, BeginReceipt, BeginRefused, SendCheck, PutRefused, PutLost,
       Settle, SettleLost
  <2> QED BY <1>6, <2>1, <2>2, <2>3, <2>4 DEF WorkerStep
<1>7. ASSUME NEW s \in StaffOps, StaffStep(s) PROVE RotationMoves
  BY <1>0, <1>7 DEF StaffStep, QueueBegin, QueueEnd, QueueNotSent, QueueListen,
     QueueUnchanged, QueueChanged, CrashStaff
<1>8. ASSUME NEW w \in Workers, CrashWorker(w) PROVE RotationMoves
  BY <1>8 DEF CrashWorker
<1>9. CASE GameStep
  BY <1>0, <1>9 DEF GameStep, ScoreRises, NextRound, SettingsSave, RotationSave
<1> QED BY <1>1, <1>2, <1>3, <1>4, <1>5, <1>6, <1>7, <1>8, <1>9 DEF Next

LEMMA RecordsOrKept ==
  ASSUME IInv, [Next]_vars
  PROVE  RecordsMove
<1> USE DEF RecordsMove, dbVars, autoVars, auditVars, historyVars, WorkerOnly, StateOnly,
    OpenerOnly
<1>1. CASE UNCHANGED vars BY <1>1 DEF vars
<1>2. ASSUME NEW on \in BOOLEAN, SavePolicy(on) PROVE RecordsMove
  BY <1>2 DEF SavePolicy
<1>3. ASSUME NEW v \in Votes, OpenerStep(v) PROVE RecordsMove
  BY <1>3 DEF OpenerStep, PrepareManual, CreateManual, RefuseManual, Published,
     PublishUnconfirmed, ConfirmPublished, RecheckPolicy, RecheckUnreadable, UndoOpen,
     FailOpen, CrashOpener, Publish
<1>4. ASSUME NEW v \in Votes, VoteStep(v) PROVE RecordsMove
  BY <1>4 DEF VoteStep, Cast, Expire, StaffClose
<1>5. ASSUME NEW w \in Workers, NEW v \in Votes, TickStep(w, v) PROVE RecordsMove
  BY <1>5 DEF TickStep, Recover, CancelExpired, ClaimExpired, Observe, EvaluateOpen,
     ReviewRead
<1>6. ASSUME NEW w \in Workers, WorkerStep(w) PROVE RecordsMove
  <2>1. CASE OpenTickStep(w)
    BY <2>1 DEF OpenTickStep, Confirm, CreateAutomatic, RefuseAutomatic, EndOpening
  <2>2. CASE CloseStep(w)
    BY <2>2 DEF CloseStep, CancelObserved, ObserveScore, ClaimAtScore, CloseUndecided,
       CheckGame, CloseUnsafe, RecheckBallot, YieldToStaff, StaffClear, AlreadyNext,
       WouldAppend, RecordPlan, StartFifty, ReadEvent, Finish, Resolve
  <2>3. CASE ActStep(w)
    BY <2>3 DEF ActStep, BeginReceipt, BeginRefused, SendCheck, PutWinner, PutRefused,
       PutLost, Settle, SettleLost
  <2> QED BY <1>6, <2>1, <2>2, <2>3 DEF WorkerStep
<1>7. ASSUME NEW s \in StaffOps, StaffStep(s) PROVE RecordsMove
  BY <1>7 DEF StaffStep, QueueBegin, QueueEnd, QueueNotSent, QueueListen,
     QueueUnchanged, QueueChanged, CrashStaff
<1>8. ASSUME NEW w \in Workers, CrashWorker(w) PROVE RecordsMove
  BY <1>8 DEF CrashWorker
<1>9. CASE GameStep
  BY <1>9 DEF GameStep, ScoreRises, NextRound, SettingsSave, RotationSave
<1> QED BY <1>1, <1>2, <1>3, <1>4, <1>5, <1>6, <1>7, <1>8, <1>9 DEF Next

LEMMA ClaimsOrKept ==
  ASSUME IInv, [Next]_vars, NEW w \in Workers
  PROVE  ClaimsKept(w) \/ Concludes(w)
<1> USE DEF IInv, TypeOK, WorkTypes, ClaimsKept, Claims, Concludes, workVars, WorkerOnly,
    StateOnly, OpenerOnly
<1>1. CASE UNCHANGED vars BY <1>1 DEF vars
<1>2. ASSUME NEW on \in BOOLEAN, SavePolicy(on) PROVE ClaimsKept(w)
  BY <1>2 DEF SavePolicy
<1>3. ASSUME NEW v \in Votes, OpenerStep(v) PROVE ClaimsKept(w)
  BY <1>3 DEF OpenerStep, PrepareManual, CreateManual, RefuseManual, Published,
     PublishUnconfirmed, ConfirmPublished, RecheckPolicy, RecheckUnreadable, UndoOpen,
     FailOpen, CrashOpener, Publish
<1>4. ASSUME NEW v \in Votes, VoteStep(v) PROVE ClaimsKept(w)
  BY <1>4 DEF VoteStep, Cast, Expire, StaffClose
<1>5. ASSUME NEW x \in Workers, NEW v \in Votes, TickStep(x, v)
      PROVE  ClaimsKept(w) \/ Concludes(w)
  BY <1>5 DEF TickStep, Recover, CancelExpired, ClaimExpired, Observe, EvaluateOpen,
     ReviewRead, Take, Count
<1>6. ASSUME NEW x \in Workers, WorkerStep(x) PROVE ClaimsKept(w) \/ Concludes(w)
  <2>1. CASE OpenTickStep(x)
    BY <2>1 DEF OpenTickStep, Confirm, CreateAutomatic, RefuseAutomatic, EndOpening,
       Go, AtStep, Release
  <2>2. CASE CloseStep(x) /\ ~Concludes(x)
    BY <2>2 DEF CloseStep, CancelObserved, ObserveScore, ClaimAtScore, CloseUndecided,
       CheckGame, CloseUnsafe, RecheckBallot, YieldToStaff, StaffClear, WouldAppend,
       RecordPlan, Finish, Resolve, Count, Go, AtStep, Conclude, Release
  <2>3. CASE ActStep(x) /\ ~Concludes(x)
    BY <2>3 DEF ActStep, BeginReceipt, BeginRefused, PutRefused, PutLost, SettleLost,
       Go, AtStep, Conclude
  <2>4. CASE Concludes(x) /\ x # w
    BY <2>4 DEF AlreadyNext, SendCheck, PutWinner, Settle, StartFifty, ReadEvent,
       ReviewRead, Take, Go, AtStep, Conclude
  <2> QED BY <1>6, <2>1, <2>2, <2>3, <2>4 DEF WorkerStep
<1>7. ASSUME NEW s \in StaffOps, StaffStep(s) PROVE ClaimsKept(w)
  BY <1>7 DEF StaffStep, QueueBegin, QueueEnd, QueueNotSent, QueueListen,
     QueueUnchanged, QueueChanged, CrashStaff
<1>8. ASSUME NEW x \in Workers, CrashWorker(x) PROVE ClaimsKept(w)
  BY <1>8 DEF CrashWorker, Release
<1>9. CASE GameStep
  BY <1>9 DEF GameStep, ScoreRises, NextRound, SettingsSave, RotationSave
<1> QED BY <1>1, <1>2, <1>3, <1>4, <1>5, <1>6, <1>7, <1>8, <1>9 DEF Next

LEMMA QueuedOrKept ==
  ASSUME IInv, [Next]_vars
  PROVE  QueuedMoves
<1> USE DEF IInv, TypeOK, StateTypes, QueuedMoves, WorkerOnly, OpenerOnly
<1>1. CASE UNCHANGED vars BY <1>1 DEF vars
<1>2. ASSUME NEW on \in BOOLEAN, SavePolicy(on) PROVE QueuedMoves
  BY <1>2 DEF SavePolicy, CloseAutomatic
<1>3. ASSUME NEW v \in Votes, OpenerStep(v) PROVE QueuedMoves
  BY <1>3 DEF OpenerStep, PrepareManual, CreateManual, RefuseManual, Published,
     PublishUnconfirmed, ConfirmPublished, RecheckPolicy, RecheckUnreadable, UndoOpen,
     FailOpen, CrashOpener, Publish, Record, SetState
<1>4. ASSUME NEW v \in Votes, VoteStep(v) PROVE QueuedMoves
  BY <1>4 DEF VoteStep, Cast, Expire, StaffClose, SetState
<1>5. ASSUME NEW w \in Workers, NEW v \in Votes, TickStep(w, v) PROVE QueuedMoves
  BY <1>5 DEF TickStep, Recover, CancelExpired, ClaimExpired, Observe, EvaluateOpen,
     ReviewRead, Count, SetState
<1>6. ASSUME NEW w \in Workers, WorkerStep(w) PROVE QueuedMoves
  <2>1. CASE OpenTickStep(w)
    BY <2>1 DEF OpenTickStep, Confirm, CreateAutomatic, RefuseAutomatic, EndOpening,
       Record, SetState
  <2>2. CASE Finish(w) BY <2>2 DEF Finish, SetState, Ending, Claims
  <2>3. CASE Resolve(w) BY <2>3 DEF Resolve, SetState, Claims
  <2>4. CASE CloseStep(w) /\ ~Finish(w) /\ ~Resolve(w)
    BY <2>4 DEF CloseStep, CancelObserved, ObserveScore, ClaimAtScore, CloseUndecided,
       CheckGame, CloseUnsafe, RecheckBallot, YieldToStaff, StaffClear, AlreadyNext,
       WouldAppend, RecordPlan, StartFifty, ReadEvent, Count, SetState
  <2>5. CASE ActStep(w)
    BY <2>5 DEF ActStep, BeginReceipt, BeginRefused, SendCheck, PutWinner, PutRefused,
       PutLost, Settle, SettleLost
  <2> QED BY <1>6, <2>1, <2>2, <2>3, <2>4, <2>5 DEF WorkerStep
<1>7. ASSUME NEW s \in StaffOps, StaffStep(s) PROVE QueuedMoves
  BY <1>7 DEF StaffStep, QueueBegin, QueueEnd, QueueNotSent, QueueListen,
     QueueUnchanged, QueueChanged, CrashStaff
<1>8. ASSUME NEW w \in Workers, CrashWorker(w) PROVE QueuedMoves
  BY <1>8 DEF CrashWorker
<1>9. CASE GameStep
  BY <1>9 DEF GameStep, ScoreRises, NextRound, SettingsSave, RotationSave
<1> QED BY <1>1, <1>2, <1>3, <1>4, <1>5, <1>6, <1>7, <1>8, <1>9 DEF Next

\* The winner of a counted ballot and the row it was planned on stay as they are.
LEMMA CountedStays ==
  ASSUME IInv, [Next]_vars, NEW v \in Votes, winner[v] # NoChoice
  PROVE  winner'[v] = winner[v] /\ row'[v] = row[v]
<1> USE DEF IInv
<1>1. voteState[v] \notin {"none", "open"}
  BY DEF Control, WinnerPast, PastOpen, FinalStates, VoteStates, ActiveStates
<1>2. winner'[v] = winner[v]
  BY <1>1, CountOrNot DEF Uncounted, CountedNow, Count, TypeOK, TallyTypes
<1>3. row'[v] = row[v]
  BY <1>1, OpensOrNot DEF NoneOpens, planVars, PrepareManual, CreateManual, EvaluateOpen,
     CreateAutomatic, TypeOK, PlanTypes
<1> QED BY <1>2, <1>3

\* What was next, and what was recorded, was so for good.
LEMMA HistoryGrows ==
  ASSUME IInv, [Next]_vars
  PROVE  /\ everNext \subseteq everNext' /\ events \subseteq events'
         /\ replaced \subseteq replaced'
<1>1. everNext \subseteq everNext' /\ replaced \subseteq replaced'
  BY RotationOrKept DEF RotationMoves, PutEntry
<1>2. events \subseteq events' BY RecordsOrKept DEF RecordsMove, StartFifty
<1> QED BY <1>1, <1>2

LEMMA RealStays ==
  ASSUME IInv, [Next]_vars, NEW v \in Votes, Real(v)
  PROVE  Real(v)'
BY CountedStays, HistoryGrows DEF Real

\* An entry a rotation holds is on record when it is no Base.
LEMMA WrittenWinner ==
  ASSUME TypeOK, NEW v \in Votes, NEW rotation, Written(rotation), winner[v] \in Maps,
         rotation[row[v].round] = winner[v]
  PROVE  Real(v)
<1>1. row[v].round \in Rounds BY DEF TypeOK, PlanTypes, Rows
<1> QED BY <1>1, VotesAssumption DEF Written, Real

\* The rotation of the game and every rotation read from it stay on record.
LEMMA WrittenStays ==
  ASSUME IInv, ResultInv, [Next]_vars
  PROVE  /\ Written(game.rotation)'
         /\ \A w \in Workers : pc'[w] \in CheckedSteps => Written(seen[w].rotation)'
<1> USE DEF IInv, ResultInv
<1>1. \A r \in Rounds : game'.rotation[r] # Base =>
        <<r, game'.rotation[r]>> \in everNext'
  <2>1. CASE game'.rotation = game.rotation /\ UNCHANGED <<replaced, everNext>>
    BY <2>1 DEF Written
  <2>2. ASSUME NEW r \in Rounds, NEW e \in Entries, PutEntry(r, e)
        PROVE  \A x \in Rounds : game'.rotation[x] # Base =>
                 <<x, game'.rotation[x]>> \in everNext'
    BY <2>2 DEF PutEntry, GameOf, Written, TypeOK, WorldTypes
  <2> QED BY <2>1, <2>2, RotationOrKept DEF RotationMoves
<1>2. ASSUME NEW w \in Workers, pc'[w] \in CheckedSteps
      PROVE  \A r \in Rounds : seen'[w].rotation[r] # Base =>
               <<r, seen'[w].rotation[r]>> \in everNext'
  <2>1. CASE ReadKept(w) BY <1>2, <2>1, HistoryGrows DEF ReadKept, Written
  <2>2. CASE CheckGame(w)
    BY <2>2, HistoryGrows DEF CheckGame, Reading, Written, TypeOK, WorkTypes
  <2> QED BY <2>1, <2>2, ReadOrKept
<1> QED BY <1>1, <1>2 DEF Written

\* Every conclusion that a winner is queued is drawn from what made it so.
LEMMA ConcludesReal ==
  ASSUME IInv, ResultInv, [Next]_vars, NEW w \in Workers, Concludes(w), Claims(w)'
  PROVE  cur'[w] \in Votes /\ \A v \in Votes : v = cur'[w] => Real(v)'
<1> USE DEF IInv, ResultInv, TypeOK, WorkTypes
<1>1. CASE AlreadyNext(w)
  <2>1. /\ cur'[w] = cur[w] /\ cur[w] \in Votes /\ winner[cur[w]] \in Maps
        /\ Written(seen[w].rotation) /\ seen[w].rotation[row[cur[w]].round] = winner[cur[w]]
    BY <1>1 DEF AlreadyNext, Conclude, Control, Sound, CheckedSteps
  <2>2. Real(cur[w]) BY <2>1, WrittenWinner
  <2> QED BY <2>1, <2>2, RealStays
<1>2. CASE SendCheck(w)
  <2>1. /\ cur'[w] = cur[w] /\ cur[w] \in Votes /\ winner[cur[w]] \in Maps
        /\ game.rotation[row[cur[w]].round] = winner[cur[w]]
    BY <1>2 DEF SendCheck, Conclude, Go, AtStep, Claims, Control, Sound
  <2>2. Real(cur[w]) BY <2>1, WrittenWinner
  <2> QED BY <2>1, <2>2, RealStays
<1>3. CASE PutWinner(w)
  <2>1. /\ cur'[w] = cur[w] /\ cur[w] \in Votes /\ winner[cur[w]] \in Maps
        /\ <<row[cur[w]].round, winner[cur[w]]>> \in everNext'
    BY <1>3 DEF PutWinner, PutEntry, Conclude, Control, Sound
  <2>2. winner' = winner /\ row' = row
    BY <1>3 DEF PutWinner, dbVars, tallyVars, planVars
  <2>3. winner[cur[w]] # Fifty /\ winner[cur[w]] # NoChoice BY <2>1, VotesAssumption
  <2> QED BY <2>1, <2>2, <2>3 DEF Real
<1>4. CASE Settle(w)
  <2>1. cur'[w] = cur[w] /\ cur[w] \in Votes /\ Claims(w)
    BY <1>4 DEF Settle, Conclude, FinalOf, Claims, Control, Sound
  <2> QED BY <2>1, RealStays
<1>5. CASE StartFifty(w)
  <2>1. /\ cur'[w] = cur[w] /\ cur[w] \in Votes /\ winner[cur[w]] = Fifty
        /\ cur[w] \in events' /\ winner' = winner
    BY <1>5 DEF StartFifty, Conclude, Go, AtStep, Claims, Control, Sound, tallyVars
  <2> QED BY <2>1, VotesAssumption DEF Real
<1>6. CASE ReadEvent(w)
  <2>1. /\ cur'[w] = cur[w] /\ cur[w] \in Votes /\ winner[cur[w]] = Fifty
        /\ cur[w] \in events
    BY <1>6 DEF ReadEvent, Conclude, Claims, Control, Sound
  <2>2. Real(cur[w]) BY <2>1, VotesAssumption DEF Real
  <2> QED BY <2>1, <2>2, RealStays
<1>7. ASSUME NEW v \in Votes, ReviewRead(w, v)
      PROVE  cur'[w] = v /\ Real(v)
  <2>1. cur'[w] = v /\ ReviewConclusion(v) = "queued"
    BY <1>7 DEF ReviewRead, Take, Claims
  <2>2. CASE winner[v] = Fifty /\ v \in events BY <2>1, <2>2, VotesAssumption DEF Real
  <2>3. CASE winner[v] # Fifty /\ v \in queue /\ game.rotation = After(v)
    <3>1. winner[v] \in Maps
      BY <2>3 DEF Control, HasWinner, TallyTypes, Choices
    <3>2. game.rotation[row[v].round] = winner[v]
      BY <2>3 DEF After, PlanTypes, Rows
    <3> QED BY <2>1, <3>1, <3>2, WrittenWinner
  <2>4. CASE FromReceipt(v) = "queued"
    BY <2>1, <2>4 DEF FromReceipt
  <2> QED BY <2>1, <2>2, <2>3, <2>4 DEF ReviewConclusion
<1>8. ASSUME NEW v \in Votes, ReviewRead(w, v)
      PROVE  cur'[w] \in Votes /\ \A x \in Votes : x = cur'[w] => Real(x)'
  BY <1>7, <1>8, RealStays
<1> QED BY <1>1, <1>2, <1>3, <1>4, <1>5, <1>6, <1>8 DEF Concludes

\* Every step keeps what is said of queued winners true.
LEMMA ResultStep ==
  ASSUME IInv, ResultInv, [Next]_vars
  PROVE  ResultInv'
<1> USE DEF IInv
<1>1. /\ Written(game.rotation)'
      /\ \A w \in Workers : pc'[w] \in CheckedSteps => Written(seen[w].rotation)'
  BY WrittenStays
<1>2. ASSUME NEW w \in Workers, Claims(w) PROVE cur[w] \in Votes /\ Real(cur[w])
  BY <1>2 DEF ResultInv, Claims, Control, Sound
<1>3. ASSUME NEW w \in Workers, Claims(w)'
      PROVE  cur'[w] \in Votes /\ \A v \in Votes : v = cur'[w] => Real(v)'
  <2>1. CASE ClaimsKept(w) BY <1>2, <1>3, <2>1, RealStays DEF ClaimsKept
  <2> QED BY <1>3, <2>1, ClaimsOrKept, ConcludesReal
<1>4. ASSUME NEW v \in Votes, receipt'[v] \in {"applied", "pending"} PROVE Real(v)'
  <2>1. CASE receipt[v] \in {"applied", "pending"} BY <2>1, RealStays DEF ResultInv
  <2>2. CASE receipt[v] \notin {"applied", "pending"}
    <3>1. PICK w \in Workers : cur[w] = v /\ Claims(w)
      BY <1>4, <2>2, RecordsOrKept DEF RecordsMove, BeginReceipt, Recorded, Settle,
         Claims, TypeOK, AutomationTypes
    <3> QED BY <1>2, <3>1, RealStays
  <2> QED BY <2>1, <2>2
<1>5. ASSUME NEW v \in Votes, voteState'[v] = "queued" PROVE Real(v)'
  <2>1. CASE voteState[v] = "queued" BY <2>1, RealStays DEF ResultInv
  <2>2. ASSUME NEW w \in Workers, cur[w] = v, Claims(w) PROVE Real(v)'
    BY <1>2, <2>2, RealStays
  <2> QED BY <1>5, <2>1, <2>2, QueuedOrKept DEF QueuedMoves
<1>6. \A w \in Workers : Claims(w)' => Real(cur[w])' BY <1>3
<1> QED BY <1>1, <1>4, <1>5, <1>6 DEF ResultInv

LEMMA ResultInductive == Spec => []ResultInv
<1>1. Init => ResultInv
  BY DEF Init, ResultInv, Written, GameOf, Unwritten, CheckedSteps, Claims
<1>2. IInv /\ ResultInv /\ [Next]_vars => ResultInv' BY ResultStep
<1> QED BY <1>1, <1>2, Inductive, PTL DEF Spec

\* For any number of workers, "winner queued" is said of a ballot only when its winner
\* has been the next entry of its round or its event is recorded.
THEOREM QueuedWasNext == Spec => []QueuedIsTrue
<1>1. ResultInv => QueuedIsTrue BY DEF ResultInv, Real, QueuedIsTrue
<1> QED BY <1>1, ResultInductive, PTL

\* The deployment the code is written for: one bot process runs the voting tick.
OneProcess == \A w, x \in Workers : w = x

Dropped == {"cancelled", "tied", "no_votes"}
DropResults == {"no_votes", "tied", "cancelled", "refused", "unready"}
ObservedSteps == {"cancel", "observed", "claim"}
\* The steps of a close before it has had an effect.
BareSteps == {"close", "recheck", "staff", "plan", "begin", "send", "put", "fifty"}
NoEffect(v) == wrote[v] = 0 /\ v \notin events
\* What DroppedIsTrue says of a ballot reported as left without effect.
Left(v) == /\ wrote[v] > 0 => v \in replaced \cup closedBy
           /\ v \in events => v \in closedBy
\* What the step of the one worker says of the effects of the ballot it holds.
Held(w) ==
  LET v == cur[w] IN
  /\ pc[w] \in ObservedSteps => winner[v] = NoChoice
  /\ pc[w] \in BareSteps =>
       NoEffect(v) /\ (voteState[v] \in {"closing", "needs_review"} \/ v \in closedBy)
  /\ pc[w] \in SendSteps => receipt[v] = "started"
  /\ pc[w] = "settle" /\ conclusion[w] = "failed" => NoEffect(v)
  /\ pc[w] = "finish" /\ conclusion[w] \in DropResults => NoEffect(v)
  /\ pc[w] = "resolve" /\ conclusion[w] # "queued" => Left(v)
  /\ pc[w] = "plan" => v \in Automatic
  /\ pc[w] \in CheckedSteps /\ v \in Automatic => seen[w].rotation = row[v].rotation
\* Only a published ballot is voted on, and a write or an event fits its winner.
Posted == \A v \in Votes : voteState[v] = "open" \/ winner[v] # NoChoice => v \in messageId
EffectsFit == \A v \in Votes : /\ wrote[v] > 0 => winner[v] \in Maps
                               /\ v \in events => winner[v] = Fifty
\* While an automatic ballot is being published, the one worker waits for it.
Publishing == \A v \in Votes :
  /\ opener[v] \in {"recheck", "undo"} => v \in Automatic
  /\ v \in Automatic /\ opener[v] # "idle" =>
       winner[v] = NoChoice /\ \E w \in Workers : pc[w] = "publishing" /\ cur[w] = v
QueuePlans == \A v \in queue : row[v].rotation[row[v].round] # winner[v]
StillNext == \A v \in Votes :
  wrote[v] > 0 => game.rotation[row[v].round] = winner[v] \/ v \in replaced
FailedUnsent == \A v \in Votes : receipt[v] = "failed" => wrote[v] = 0
DroppedInv == /\ \A w \in Workers : Held(w)
              /\ Posted /\ EffectsFit /\ Publishing
              /\ QueuePlans /\ StillNext /\ FailedUnsent
              /\ DroppedIsTrue

\* How a ballot comes to be reported as left without effect.
DropMoves == \A v \in Votes :
  voteState'[v] \in Dropped /\ voteState[v] \notin Dropped =>
    /\ UNCHANGED <<wrote, events>>
    /\ \/ voteState[v] = "open" \/ opener[v] = "undo" \/ v \in closedBy'
       \/ \E w \in Workers :
            /\ cur[w] = v
            /\ \/ pc[w] = "cancel"
               \/ pc[w] = "finish" /\ conclusion[w] \in DropResults
               \/ pc[w] = "resolve" /\ conclusion[w] # "queued"
\* A ballot opens when its message is posted, and no message ID is lost.
PostMoves == \A v \in Votes : voteState'[v] = "open" => voteState[v] = "open" \/ v \in messageId'

-------------------------------------------------------------------------------
(* What a ballot left without effect did to the game, with one process.      *)

LEMMA DropsOrKept ==
  ASSUME IInv, [Next]_vars
  PROVE  DropMoves /\ PostMoves
<1> USE DEF IInv, TypeOK, StateTypes, PlanTypes, HistoryTypes, DropMoves, PostMoves, Dropped,
    DropResults, dbVars, planVars, tallyVars, autoVars, auditVars, worldVars, workVars,
    staffVars, historyVars, WorkerOnly, StateOnly, OpenerOnly
<1>1. CASE UNCHANGED vars BY <1>1 DEF vars
<1>2. ASSUME NEW on \in BOOLEAN, SavePolicy(on) PROVE DropMoves /\ PostMoves
  BY <1>2 DEF SavePolicy, CloseAutomatic
<1>3. ASSUME NEW v \in Votes, OpenerStep(v) PROVE DropMoves /\ PostMoves
  BY <1>3 DEF OpenerStep, PrepareManual, CreateManual, RefuseManual, Published,
     PublishUnconfirmed, ConfirmPublished, RecheckPolicy, RecheckUnreadable, UndoOpen,
     FailOpen, CrashOpener, Publish, Record, SetState
<1>4. ASSUME NEW v \in Votes, VoteStep(v) PROVE DropMoves /\ PostMoves
  BY <1>4 DEF VoteStep, Cast, Expire, StaffClose, SetState
<1>5. ASSUME NEW w \in Workers, NEW v \in Votes, TickStep(w, v)
      PROVE  DropMoves /\ PostMoves
  BY <1>5 DEF TickStep, Recover, CancelExpired, ClaimExpired, Observe, EvaluateOpen,
     ReviewRead, Count, SetState
<1>6. ASSUME NEW w \in Workers, WorkerStep(w) PROVE DropMoves /\ PostMoves
  <2>1. CASE OpenTickStep(w)
    BY <2>1 DEF OpenTickStep, Confirm, CreateAutomatic, RefuseAutomatic, EndOpening,
       Record, SetState
  <2>2. CASE Finish(w)
    BY <2>2 DEF Finish, SetState, Ending, Control, Sound
  <2>3. CASE Resolve(w) BY <2>3 DEF Resolve, SetState
  <2>4. CASE CancelObserved(w) BY <2>4 DEF CancelObserved, SetState
  <2>5. CASE CloseStep(w) /\ ~Finish(w) /\ ~Resolve(w) /\ ~CancelObserved(w)
    BY <2>5 DEF CloseStep, ObserveScore, ClaimAtScore, CloseUndecided, CheckGame,
       CloseUnsafe, RecheckBallot, YieldToStaff, StaffClear, AlreadyNext, WouldAppend,
       RecordPlan, StartFifty, ReadEvent, Count, SetState
  <2>6. CASE ActStep(w)
    BY <2>6 DEF ActStep, BeginReceipt, BeginRefused, SendCheck, PutWinner, PutRefused,
       PutLost, Settle, SettleLost
  <2> QED BY <1>6, <2>1, <2>2, <2>3, <2>4, <2>5, <2>6 DEF WorkerStep
<1>7. ASSUME NEW s \in StaffOps, StaffStep(s) PROVE DropMoves /\ PostMoves
  BY <1>7 DEF StaffStep, QueueBegin, QueueEnd, QueueNotSent, QueueListen,
     QueueUnchanged, QueueChanged, CrashStaff
<1>8. ASSUME NEW w \in Workers, CrashWorker(w) PROVE DropMoves /\ PostMoves
  BY <1>8 DEF CrashWorker
<1>9. CASE GameStep
  BY <1>9 DEF GameStep, ScoreRises, NextRound, SettingsSave, RotationSave
<1> QED BY <1>1, <1>2, <1>3, <1>4, <1>5, <1>6, <1>7, <1>8, <1>9 DEF Next

\* A ballot whose winner nobody has counted had no effect.
LEMMA UncountedBare ==
  ASSUME IInv, EffectsFit, NEW v \in Votes, winner[v] = NoChoice
  PROVE  NoEffect(v)
BY VotesAssumption DEF EffectsFit, NoEffect, IInv, TypeOK, HistoryTypes

LEMMA OpenUncounted ==
  ASSUME IInv, NEW v \in Votes, voteState[v] = "open" \/ voteState[v] = "none"
  PROVE  winner[v] = NoChoice
BY DEF IInv, Control, WinnerPast, PastOpen, FinalStates, VoteStates, ActiveStates

\* Only a worker that is about to write the winner or to start its event gives a ballot
\* an effect.
LEMMA EffectsByHolder ==
  ASSUME IInv, [Next]_vars, NEW v \in Votes,
         wrote'[v] # wrote[v] \/ (v \in events' /\ v \notin events)
  PROVE  \E w \in Workers : /\ cur[w] = v
                            /\ \/ PutWinner(w) /\ events' = events
                               \/ StartFifty(w) /\ wrote' = wrote
<1>1. CASE wrote'[v] # wrote[v]
  <2>1. PICK w \in Workers : PutWinner(w)
    BY <1>1, WriteOrNot DEF NoWrite, BeginReceipt, historyVars
  <2> QED
    BY <1>1, <2>1 DEF PutWinner, dbVars, auditVars, IInv, TypeOK, HistoryTypes
<1>2. CASE v \in events' /\ v \notin events
  <2>1. PICK w \in Workers : StartFifty(w) BY <1>2, RecordsOrKept DEF RecordsMove
  <2> QED BY <1>2, <2>1 DEF StartFifty, historyVars
<1> QED BY <1>1, <1>2

\* What is said of dropped ballots stays true.
LEMMA DroppedStays ==
  ASSUME IInv, DroppedInv, [Next]_vars
  PROVE  DroppedIsTrue'
<1> USE DEF IInv, TypeOK, HistoryTypes
<1>0. closedBy \subseteq closedBy' /\ replaced \subseteq replaced'
  BY RecordsOrKept, HistoryGrows DEF RecordsMove
<1>1. ASSUME NEW v \in Votes, voteState'[v] \in Dropped PROVE Left(v)'
  <2>1. CASE voteState[v] \in Dropped
    <3>1. Left(v) BY <2>1 DEF DroppedInv, DroppedIsTrue, Dropped, Left
    <3>2. CASE wrote'[v] # wrote[v] \/ (v \in events' /\ v \notin events)
      <4>1. v \in closedBy
        BY <2>1, <3>2, EffectsByHolder DEF DroppedInv, Held, BareSteps, Dropped,
           PutWinner, StartFifty
      <4> QED BY <1>0, <4>1 DEF Left
    <3>3. CASE ~(wrote'[v] # wrote[v] \/ (v \in events' /\ v \notin events))
      BY <1>0, <3>1, <3>3 DEF Left
    <3> QED BY <3>2, <3>3
  <2>2. CASE voteState[v] \notin Dropped
    <3>1. /\ wrote'[v] = wrote[v] /\ events' = events
          /\ \/ voteState[v] = "open" \/ opener[v] = "undo" \/ v \in closedBy'
             \/ \E w \in Workers :
                  /\ cur[w] = v
                  /\ \/ pc[w] = "cancel"
                     \/ pc[w] = "finish" /\ conclusion[w] \in DropResults
                     \/ pc[w] = "resolve" /\ conclusion[w] # "queued"
      BY <1>1, <2>2, DropsOrKept DEF DropMoves
    <3>2. CASE v \in closedBy' BY <3>2 DEF Left
    <3>3. CASE voteState[v] = "open" \/ opener[v] = "undo"
      <4>1. winner[v] = NoChoice
        BY <3>3, OpenUncounted DEF DroppedInv, Publishing
      <4>2. NoEffect(v) BY <4>1, UncountedBare DEF DroppedInv
      <4> QED BY <3>1, <4>2 DEF NoEffect, Left
    <3>4. ASSUME NEW w \in Workers, cur[w] = v,
                 \/ pc[w] = "cancel"
                 \/ pc[w] = "finish" /\ conclusion[w] \in DropResults
          PROVE  Left(v)'
      <4>1. NoEffect(v)
        BY <3>4, UncountedBare DEF DroppedInv, Held, ObservedSteps
      <4> QED BY <3>1, <4>1 DEF NoEffect, Left
    <3>5. ASSUME NEW w \in Workers, cur[w] = v, pc[w] = "resolve",
                 conclusion[w] # "queued"
          PROVE  Left(v)'
      <4>1. Left(v) BY <3>5 DEF DroppedInv, Held
      <4> QED BY <1>0, <3>1, <4>1 DEF Left
    <3> QED BY <3>1, <3>2, <3>3, <3>4, <3>5
  <2> QED BY <2>1, <2>2
<1> QED BY <1>1 DEF DroppedIsTrue, Dropped, Left

\* What is known of posted ballots, their effects and their receipts stays known.
LEMMA RecordsStay ==
  ASSUME IInv, ReadsInv, DroppedInv, OneProcess, [Next]_vars
  PROVE  Posted' /\ EffectsFit' /\ QueuePlans' /\ StillNext' /\ FailedUnsent'
<1> USE DEF IInv, TypeOK, TallyTypes, HistoryTypes, AutomationTypes, WorkTypes
<1>0. messageId \subseteq messageId' BY RecordsOrKept DEF RecordsMove
<1>1. \A v \in Votes : winner'[v] # winner[v] => voteState[v] = "open"
  BY CountOrNot DEF Uncounted, CountedNow, Count
<1>2. Posted'
  BY <1>0, <1>1, DropsOrKept DEF DroppedInv, Posted, PostMoves
<1>3. EffectsFit'
  <2>1. ASSUME NEW v \in Votes, wrote'[v] > 0 PROVE winner'[v] \in Maps
    <3>1. CASE wrote'[v] # wrote[v]
      <4>1. winner[v] \in Maps
        BY <3>1, EffectsByHolder DEF PutWinner, StartFifty, Control, Sound
      <4> QED BY <4>1, CountedStays, VotesAssumption
    <3>2. CASE wrote'[v] = wrote[v]
      BY <2>1, <3>2, CountedStays, VotesAssumption DEF DroppedInv, EffectsFit
    <3> QED BY <3>1, <3>2
  <2>2. ASSUME NEW v \in Votes, v \in events' PROVE winner'[v] = Fifty
    <3>1. winner[v] = Fifty
      BY <2>2, EffectsByHolder DEF DroppedInv, EffectsFit, PutWinner, StartFifty,
         Control, Sound
    <3> QED BY <3>1, CountedStays, VotesAssumption
  <2> QED BY <2>1, <2>2 DEF EffectsFit
<1>4. QueuePlans'
  <2>1. ASSUME NEW v \in queue'
        PROVE  v \in Votes /\ row[v].rotation[row[v].round] # winner[v]
               /\ winner[v] # NoChoice
    <3>1. CASE v \in queue
      BY <3>1 DEF DroppedInv, QueuePlans, Control, HasWinner
    <3>2. CASE v \notin queue
      <4>1. PICK w \in Workers : RecordPlan(w)
        BY <2>1, <3>2, RecordsOrKept DEF RecordsMove
      <4>2. v = cur[w] /\ pc[w] = "plan" /\ v \in Votes /\ winner[v] \in Maps
        BY <2>1, <3>2, <4>1 DEF RecordPlan, Control, Sound
      <4>3. seen[w].rotation = row[v].rotation
        BY <4>2 DEF DroppedInv, Held, CheckedSteps
      <4> QED BY <4>1, <4>2, <4>3, VotesAssumption DEF RecordPlan
    <3> QED BY <3>1, <3>2
  <2> QED BY <2>1, CountedStays DEF QueuePlans
<1>5. StillNext'
  <2>1. SUFFICES ASSUME NEW v \in Votes, wrote'[v] > 0
                 PROVE  game'.rotation[row'[v].round] = winner'[v] \/ v \in replaced'
    BY DEF StillNext
  <2>2. /\ winner[v] \in Maps /\ winner'[v] = winner[v] /\ row'[v] = row[v]
        /\ row[v].round \in Rounds
    <3>1. winner[v] \in Maps
      BY <2>1, EffectsByHolder DEF DroppedInv, EffectsFit, PutWinner, StartFifty,
         Control, Sound
    <3> QED BY <3>1, CountedStays, VotesAssumption DEF PlanTypes, Rows
  <2>3. CASE wrote'[v] = wrote[v]
    <3>1. game.rotation[row[v].round] = winner[v] \/ v \in replaced
      BY <2>1, <2>3 DEF DroppedInv, StillNext
    <3>2. CASE game'.rotation = game.rotation /\ replaced' = replaced
      BY <2>2, <3>1, <3>2
    <3>3. ASSUME NEW r \in Rounds, NEW e \in Entries, PutEntry(r, e)
          PROVE  game'.rotation[row[v].round] = winner[v] \/ v \in replaced'
      BY <2>1, <2>2, <2>3, <3>1, <3>3 DEF PutEntry, GameOf, WorldTypes
    <3> QED BY <2>2, <3>2, <3>3, RotationOrKept DEF RotationMoves
  <2>4. CASE wrote'[v] # wrote[v]
    <3>1. PICK w \in Workers : cur[w] = v /\ PutWinner(w)
      BY <2>4, EffectsByHolder
    <3> QED BY <2>2, <3>1 DEF PutWinner, PutEntry, GameOf, WorldTypes
  <2> QED BY <2>3, <2>4
<1>6. FailedUnsent'
  <2>1. SUFFICES ASSUME NEW v \in Votes, receipt'[v] = "failed" PROVE wrote'[v] = 0
    BY DEF FailedUnsent
  <2>2. CASE receipt[v] = "failed"
    <3>1. wrote[v] = 0 BY <2>2 DEF DroppedInv, FailedUnsent
    <3>2. wrote'[v] = wrote[v]
      BY <2>2, EffectsByHolder DEF DroppedInv, Held, SendSteps, PutWinner
    <3> QED BY <3>1, <3>2
  <2>3. CASE receipt[v] # "failed"
    <3>1. PICK w \in Workers : cur[w] = v /\ Settle(w) /\ conclusion[w] = "failed"
      BY <2>1, <2>3, RecordsOrKept DEF RecordsMove, BeginReceipt, Recorded, Settle
    <3>2. wrote[v] = 0 BY <3>1 DEF Settle, DroppedInv, Held, NoEffect
    <3> QED BY <3>1, <3>2 DEF Settle, historyVars
  <2> QED BY <2>2, <2>3
<1> QED BY <1>2, <1>3, <1>4, <1>5, <1>6

\* A review that does not find the winner queued finds a ballot without a standing effect.
LEMMA ReviewLeft ==
  ASSUME IInv, WriteInv, DroppedInv, NEW v \in Votes,
         ReviewConclusion(v) \notin {"queued", "wait"}
  PROVE  Left(v)
<1> USE DEF IInv, TypeOK, HistoryTypes, DroppedInv, Left
<1>1. CASE v \notin messageId
  <2>1. NoEffect(v) BY <1>1, UncountedBare DEF Posted
  <2> QED BY <2>1 DEF NoEffect
<1>2. CASE v \in messageId /\ winner[v] = Fifty
  <2>1. v \notin events BY <1>2 DEF ReviewConclusion
  <2> QED BY <1>2, <2>1, VotesAssumption DEF EffectsFit
<1>3. CASE v \in messageId /\ winner[v] # Fifty
  <2>1. v \notin events BY <1>3 DEF EffectsFit
  <2>2. CASE v \in queue /\ game.rotation = row[v].rotation
    BY <2>1, <2>2 DEF QueuePlans, StillNext
  <2>3. CASE ~(v \in queue /\ game.rotation = row[v].rotation)
    <3>1. receipt[v] \in {"none", "failed"}
      BY <1>3, <2>3 DEF ReviewConclusion, FromReceipt
    <3> QED BY <2>1, <3>1 DEF FailedUnsent, WriteInv, WrittenOnce
  <2> QED BY <2>2, <2>3
<1> QED BY <1>1, <1>2, <1>3

\* While a worker rests at its step, what the step says of the ballot stays true.
LEMMA HeldStays ==
  ASSUME IInv, DroppedInv, [Next]_vars, NEW w \in Workers,
         UNCHANGED <<pc[w], cur[w], seen[w], conclusion[w], wrote, events, receipt, winner>>,
         pc[w] \in BareSteps /\ voteState[cur[w]] \in {"closing", "needs_review"} =>
           voteState'[cur[w]] \in {"closing", "needs_review"} \/ cur[w] \in closedBy'
  PROVE  Held(w)'
<1> USE DEF IInv
<1>0. closedBy \subseteq closedBy' /\ replaced \subseteq replaced'
  BY RecordsOrKept, HistoryGrows DEF RecordsMove
<1>1. Held(w) BY DEF DroppedInv
<1>2. pc[w] \in CheckedSteps => row'[cur[w]] = row[cur[w]]
  <2>1. pc[w] \in CheckedSteps => cur[w] \in Votes /\ winner[cur[w]] # NoChoice
    BY VotesAssumption DEF Control, Sound, CheckedSteps
  <2> QED BY <2>1, CountedStays
<1> QED BY <1>0, <1>1, <1>2 DEF Held, NoEffect, Left

\* A step of the game, of a member, of staff or of a publishing handler leaves the worker
\* where it is, and takes no ballot out of its close but through staff.
Aside ==
  /\ UNCHANGED <<workVars, wrote, events, receipt, winner>>
  /\ \A v \in Votes : voteState[v] \in {"closing", "needs_review"} =>
       \/ voteState'[v] \in {"closing", "needs_review"} \/ v \in closedBy'
       \/ opener[v] = "undo"
LEMMA AsideSteps ==
  ASSUME IInv, [Next]_vars
  PROVE  \/ Aside
         \/ \E w \in Workers : \/ \E v \in Votes : TickStep(w, v)
                               \/ WorkerStep(w) \/ CrashWorker(w)
<1> USE DEF IInv, TypeOK, StateTypes, Aside, dbVars, tallyVars, auditVars, workVars, historyVars,
    StateOnly, OpenerOnly
<1>1. CASE UNCHANGED vars BY <1>1 DEF vars
<1>2. ASSUME NEW on \in BOOLEAN, SavePolicy(on) PROVE Aside
  BY <1>2 DEF SavePolicy, CloseAutomatic
<1>3. ASSUME NEW v \in Votes, OpenerStep(v) PROVE Aside
  BY <1>3 DEF OpenerStep, PrepareManual, CreateManual, RefuseManual, Published,
     PublishUnconfirmed, ConfirmPublished, RecheckPolicy, RecheckUnreadable, UndoOpen,
     FailOpen, CrashOpener, Publish, Record, SetState, Active, ActiveStates
<1>4. ASSUME NEW v \in Votes, VoteStep(v) PROVE Aside
  BY <1>4 DEF VoteStep, Cast, Expire, StaffClose, SetState
<1>5. ASSUME NEW s \in StaffOps, StaffStep(s) PROVE Aside
  BY <1>5 DEF StaffStep, QueueBegin, QueueEnd, QueueNotSent, QueueListen,
     QueueUnchanged, QueueChanged, CrashStaff
<1>6. CASE GameStep
  BY <1>6 DEF GameStep, ScoreRises, NextRound, SettingsSave, RotationSave
<1> QED BY <1>1, <1>2, <1>3, <1>4, <1>5, <1>6 DEF Next

\* The worker's own steps: what the step it comes to says of its ballot is so.
LEMMA TickHeld ==
  ASSUME IInv, WriteInv, DroppedInv, NEW w \in Workers, NEW v \in Votes, TickStep(w, v)
  PROVE  Held(w)'
<1> USE DEF IInv, TypeOK, WorkTypes, Held, ObservedSteps, BareSteps, SendSteps, CheckedSteps
<1>1. CASE Recover(w, v) \/ CancelExpired(w, v)
  BY <1>1 DEF Recover, CancelExpired, StateOnly, workVars
<1>2. CASE ClaimExpired(w, v)
  <2>1. NoEffect(v) BY <1>2, OpenUncounted, UncountedBare DEF ClaimExpired, Count, DroppedInv
  <2> QED
    BY <1>2, <2>1 DEF ClaimExpired, Count, SetState, Take, NoEffect, auditVars,
       StateTypes
<1>3. CASE Observe(w, v)
  <2>1. winner[v] = NoChoice BY <1>3, OpenUncounted DEF Observe
  <2> QED BY <1>3, <2>1 DEF Observe, Take, WorkerOnly, dbVars, tallyVars
<1>4. CASE EvaluateOpen(w, v) BY <1>4 DEF EvaluateOpen, Take
<1>5. CASE ReviewRead(w, v)
  <2>1. conclusion'[w] = ReviewConclusion(v) /\ cur'[w] = v /\ pc'[w] = "resolve"
    BY <1>5 DEF ReviewRead, Take
  <2>2. conclusion'[w] # "queued" => Left(v)
    BY <1>5, <2>1, ReviewLeft DEF ReviewRead
  <2> QED
    BY <1>5, <2>1, <2>2 DEF ReviewRead, WorkerOnly, dbVars, auditVars, historyVars, Left
<1> QED BY <1>1, <1>2, <1>3, <1>4, <1>5 DEF TickStep

LEMMA OpenTickHeld ==
  ASSUME IInv, NEW w \in Workers, OpenTickStep(w)
  PROVE  Held(w)'
BY DEF OpenTickStep, Confirm, CreateAutomatic, RefuseAutomatic, EndOpening, Go, AtStep,
   Release, IInv, TypeOK, WorkTypes, Held, ObservedSteps, BareSteps, SendSteps, CheckedSteps

LEMMA CloseHeld ==
  ASSUME IInv, DroppedInv, NEW w \in Workers, CloseStep(w)
  PROVE  Held(w)'
<1> USE DEF IInv, TypeOK, WorkTypes, ObservedSteps, BareSteps, SendSteps,
    CheckedSteps, DropResults, WorkerOnly, dbVars, tallyVars, auditVars, planVars, historyVars
<1>0. cur[w] \in Votes /\ Held(w)
  BY DEF Control, Sound, DroppedInv, CloseStep, CancelObserved, ObserveScore,
     ClaimAtScore, CloseUndecided, CheckGame, CloseUnsafe, RecheckBallot, YieldToStaff,
     StaffClear, AlreadyNext, WouldAppend, RecordPlan, StartFifty, ReadEvent, Finish,
     Resolve
<1>1. CASE CancelObserved(w) \/ Finish(w) \/ Resolve(w)
  BY <1>1 DEF CancelObserved, Finish, Resolve, Release, Held
<1>2. CASE ObserveScore(w)
  BY <1>0, <1>2 DEF ObserveScore, Go, AtStep, Release, Held
<1>3. CASE ClaimAtScore(w)
  <2>1. CASE Count(cur[w]) /\ Go(w, "close")
    <3>1. NoEffect(cur[w])
      BY <1>0, <2>1, OpenUncounted, UncountedBare DEF Count, DroppedInv
    <3> QED
      BY <1>0, <1>3, <2>1, <3>1 DEF ClaimAtScore, Count, SetState, Go, AtStep, Held,
         NoEffect, StateTypes
  <2>2. CASE Release(w) BY <1>3, <2>2 DEF ClaimAtScore, Release, Held
  <2> QED BY <1>3, <2>1, <2>2 DEF ClaimAtScore
<1>4. CASE CheckGame(w)
  BY <1>0, <1>4 DEF CheckGame, GameAgrees, Reading, AtStep, Held, NoEffect
<1>5. CASE CloseUndecided(w) \/ CloseUnsafe(w) \/ YieldToStaff(w) \/ AlreadyNext(w)
           \/ WouldAppend(w)
  BY <1>0, <1>5 DEF CloseUndecided, CloseUnsafe, YieldToStaff, AlreadyNext, WouldAppend,
     Conclude, Held, NoEffect
<1>6. CASE RecheckBallot(w)
  BY <1>0, <1>6 DEF RecheckBallot, Go, AtStep, Release, Held, NoEffect
<1>7. CASE StaffClear(w)
  BY <1>0, <1>7 DEF StaffClear, Go, AtStep, Held, NoEffect
<1>8. CASE RecordPlan(w)
  BY <1>0, <1>8 DEF RecordPlan, Go, AtStep, Release, Held, NoEffect
<1>9. CASE StartFifty(w)
  BY <1>0, <1>9 DEF StartFifty, Conclude, Go, AtStep, Held, NoEffect
<1>10. CASE ReadEvent(w)
  BY <1>0, <1>10 DEF ReadEvent, Conclude, Held, NoEffect
<1> QED BY <1>1, <1>2, <1>3, <1>4, <1>5, <1>6, <1>7, <1>8, <1>9, <1>10 DEF CloseStep

LEMMA ActHeld ==
  ASSUME IInv, DroppedInv, NEW w \in Workers, ActStep(w)
  PROVE  Held(w)'
<1> USE DEF IInv, TypeOK, WorkTypes, ObservedSteps, BareSteps, SendSteps, CheckedSteps,
    DropResults, WorkerOnly, dbVars, tallyVars, auditVars, planVars, historyVars, Held,
    NoEffect, AutomationTypes
<1>0. cur[w] \in Votes /\ Held(w) /\ Sound(w)
  BY DEF Control, Sound, DroppedInv, ActStep, BeginReceipt, BeginRefused, SendCheck,
     PutWinner, PutRefused, PutLost, Settle, SettleLost
<1>1. CASE BeginReceipt(w) BY <1>0, <1>1 DEF BeginReceipt, Recorded, AtStep
<1>2. CASE BeginRefused(w) BY <1>0, <1>2 DEF BeginRefused, Conclude
<1>3. CASE SendCheck(w) BY <1>0, <1>3 DEF SendCheck, Conclude, Go, AtStep
<1>4. CASE PutWinner(w) BY <1>0, <1>4 DEF PutWinner, Conclude
<1>5. CASE PutRefused(w) BY <1>0, <1>5 DEF PutRefused, Conclude
<1>6. CASE PutLost(w) BY <1>0, <1>6 DEF PutLost, Conclude
<1>7. CASE Settle(w) BY <1>0, <1>7 DEF Settle, Conclude, FinalOf, Sound
<1>8. CASE SettleLost(w) BY <1>0, <1>8 DEF SettleLost, Conclude
<1> QED BY <1>1, <1>2, <1>3, <1>4, <1>5, <1>6, <1>7, <1>8 DEF ActStep

\* With one process, every step keeps what the worker's step says of its ballot.
LEMMA HeldStep ==
  ASSUME IInv, WriteInv, DroppedInv, OneProcess, [Next]_vars
  PROVE  \A w \in Workers : Held(w)'
<1>1. CASE Aside
  <2>1. ASSUME NEW w \in Workers PROVE Held(w)'
    <3>1. pc[w] \in BareSteps /\ voteState[cur[w]] \in {"closing", "needs_review"} =>
            voteState'[cur[w]] \in {"closing", "needs_review"} \/ cur[w] \in closedBy'
      <4>1. pc[w] \in BareSteps => cur[w] \in Votes /\ pc[w] # "publishing"
        BY DEF IInv, Control, Sound, BareSteps
      <4>2. pc[w] \in BareSteps => opener[cur[w]] # "undo"
        BY <4>1 DEF DroppedInv, Publishing, OneProcess
      <4> QED BY <1>1, <4>1, <4>2 DEF Aside
    <3> QED BY <1>1, <3>1, HeldStays DEF Aside, workVars
  <2> QED BY <2>1
<1>2. ASSUME NEW w \in Workers,
             \/ \E v \in Votes : TickStep(w, v)
             \/ WorkerStep(w) \/ CrashWorker(w)
      PROVE  Held(w)'
  <2>1. CASE CrashWorker(w)
    BY <2>1 DEF CrashWorker, Release, IInv, TypeOK, WorkTypes, Held, ObservedSteps,
       BareSteps, SendSteps, CheckedSteps
  <2> QED BY <1>2, <2>1, TickHeld, OpenTickHeld, CloseHeld, ActHeld DEF WorkerStep
<1> QED BY <1>1, <1>2, AsideSteps DEF OneProcess

\* A worker leaves the ballot it publishes when its publishing is over, or dies with it;
\* an automatic ballot is published by the worker that recorded it.
OpenersMove ==
  /\ \A v \in Votes :
       /\ opener'[v] \in {"recheck", "undo"} => v \in Automatic \/ opener[v] \in {"recheck", "undo"}
       /\ v \in Automatic /\ opener'[v] # "idle" =>
            opener[v] # "idle" \/ \E w \in Workers : cur[w] = v /\ CreateAutomatic(w)
  /\ \A w \in Workers : pc[w] = "publishing" =>
       (pc'[w] = "publishing" /\ cur'[w] = cur[w]) \/ opener'[cur[w]] = "idle"
LEMMA OpenersOrKept ==
  ASSUME IInv, [Next]_vars
  PROVE  OpenersMove
<1> USE VotesAssumption DEF IInv, TypeOK, OpenerTypes, WorkTypes, OpenersMove, dbVars,
    planVars, tallyVars, autoVars, auditVars, worldVars, workVars, staffVars,
    historyVars, WorkerOnly, StateOnly, OpenerOnly
<1>1. CASE UNCHANGED vars BY <1>1 DEF vars
<1>2. ASSUME NEW on \in BOOLEAN, SavePolicy(on) PROVE OpenersMove
  BY <1>2 DEF SavePolicy
<1>3. ASSUME NEW v \in Votes, OpenerStep(v) PROVE OpenersMove
  BY <1>3 DEF OpenerStep, PrepareManual, CreateManual, RefuseManual, Published,
     PublishUnconfirmed, ConfirmPublished, RecheckPolicy, RecheckUnreadable, UndoOpen,
     FailOpen, CrashOpener, Publish, Record, Opening
<1>4. ASSUME NEW v \in Votes, VoteStep(v) PROVE OpenersMove
  BY <1>4 DEF VoteStep, Cast, Expire, StaffClose
<1>5. ASSUME NEW w \in Workers, NEW v \in Votes, TickStep(w, v) PROVE OpenersMove
  BY <1>5 DEF TickStep, Recover, CancelExpired, ClaimExpired, Observe, EvaluateOpen,
     ReviewRead, Take
<1>6. ASSUME NEW w \in Workers, WorkerStep(w) PROVE OpenersMove
  <2>1. CASE OpenTickStep(w) /\ ~CreateAutomatic(w)
    BY <2>1 DEF OpenTickStep, Confirm, RefuseAutomatic, EndOpening, Go, AtStep, Release
  <2>2. CASE CreateAutomatic(w)
    BY <2>2 DEF CreateAutomatic, Record, Opening, AtStep
  <2>3. CASE CloseStep(w)
    BY <2>3 DEF CloseStep, CancelObserved, ObserveScore, ClaimAtScore, CloseUndecided,
       CheckGame, CloseUnsafe, RecheckBallot, YieldToStaff, StaffClear, AlreadyNext,
       WouldAppend, RecordPlan, StartFifty, ReadEvent, Finish, Resolve, Go, AtStep,
       Conclude, Release
  <2>4. CASE ActStep(w)
    BY <2>4 DEF ActStep, BeginReceipt, BeginRefused, SendCheck, PutWinner, PutRefused,
       PutLost, Settle, SettleLost, Go, AtStep, Conclude
  <2> QED BY <1>6, <2>1, <2>2, <2>3, <2>4 DEF WorkerStep
<1>7. ASSUME NEW s \in StaffOps, StaffStep(s) PROVE OpenersMove
  BY <1>7 DEF StaffStep, QueueBegin, QueueEnd, QueueNotSent, QueueListen,
     QueueUnchanged, QueueChanged, CrashStaff
<1>8. ASSUME NEW w \in Workers, CrashWorker(w) PROVE OpenersMove
  <2>1. pc[w] = "publishing" => cur[w] \in Votes BY DEF Control, Sound
  <2> QED BY <1>8, <2>1 DEF CrashWorker, Release
<1>9. CASE GameStep
  BY <1>9 DEF GameStep, ScoreRises, NextRound, SettingsSave, RotationSave
<1> QED BY <1>1, <1>2, <1>3, <1>4, <1>5, <1>6, <1>7, <1>8, <1>9 DEF Next

\* The winner of an automatic ballot is counted by a worker that observed its score.
LEMMA CountedByClaim ==
  ASSUME IInv, [Next]_vars, NEW v \in Automatic, winner'[v] # winner[v]
  PROVE  \E w \in Workers : pc[w] = "claim"
<1> USE DEF IInv, TypeOK, TallyTypes, Votes, dbVars, tallyVars, WorkerOnly, StateOnly
<1>1. CASE Aside BY <1>1 DEF Aside
<1>2. ASSUME NEW w \in Workers, NEW b \in Votes, TickStep(w, b)
      PROVE  \E x \in Workers : pc[x] = "claim"
  BY <1>2, VotesAssumption DEF TickStep, Recover, CancelExpired, ClaimExpired, Count,
     Observe, EvaluateOpen, ReviewRead
<1>3. ASSUME NEW w \in Workers, WorkerStep(w) PROVE \E x \in Workers : pc[x] = "claim"
  <2>1. CASE OpenTickStep(w)
    BY <2>1 DEF OpenTickStep, Confirm, CreateAutomatic, RefuseAutomatic, EndOpening
  <2>2. CASE CloseStep(w)
    BY <2>2 DEF CloseStep, CancelObserved, ObserveScore, ClaimAtScore, CloseUndecided,
       CheckGame, CloseUnsafe, RecheckBallot, YieldToStaff, StaffClear, AlreadyNext,
       WouldAppend, RecordPlan, StartFifty, ReadEvent, Finish, Resolve
  <2>3. CASE ActStep(w)
    BY <2>3 DEF ActStep, BeginReceipt, BeginRefused, SendCheck, PutWinner, PutRefused,
       PutLost, Settle, SettleLost
  <2> QED BY <1>3, <2>1, <2>2, <2>3 DEF WorkerStep
<1>4. ASSUME NEW w \in Workers, CrashWorker(w) PROVE winner' = winner
  BY <1>4 DEF CrashWorker
<1> QED BY <1>1, <1>2, <1>3, <1>4, AsideSteps

\* With one process, every step keeps the worker waiting for the ballot it publishes.
LEMMA PublishingStep ==
  ASSUME IInv, DroppedInv, OneProcess, [Next]_vars
  PROVE  Publishing'
<1> USE DEF IInv, DroppedInv
<1>1. ASSUME NEW v \in Votes, opener'[v] \in {"recheck", "undo"} PROVE v \in Automatic
  BY <1>1, OpenersOrKept DEF OpenersMove, Publishing
<1>2. ASSUME NEW v \in Automatic, opener'[v] # "idle"
      PROVE  winner'[v] = NoChoice /\ \E w \in Workers : pc'[w] = "publishing" /\ cur'[w] = v
  <2>0. v \in Votes BY DEF Votes
  <2>1. CASE opener[v] # "idle"
    <3>1. PICK w \in Workers : pc[w] = "publishing" /\ cur[w] = v
      BY <2>0, <2>1 DEF Publishing
    <3>2. winner'[v] = NoChoice
      BY <2>0, <2>1, <3>1, CountedByClaim DEF Publishing, OneProcess
    <3>3. pc'[w] = "publishing" /\ cur'[w] = v
      BY <1>2, <3>1, OpenersOrKept DEF OpenersMove
    <3> QED BY <3>2, <3>3
  <2>2. CASE opener[v] = "idle"
    <3>1. PICK w \in Workers : cur[w] = v /\ CreateAutomatic(w)
      BY <1>2, <2>0, <2>2, OpenersOrKept DEF OpenersMove
    <3>2. pc'[w] = "publishing" /\ cur' = cur /\ winner' = winner
      BY <3>1 DEF CreateAutomatic, AtStep, TypeOK, WorkTypes, tallyVars
    <3>3. voteState[v] = "none" BY <3>1 DEF CreateAutomatic, Control, FreshAuto
    <3> QED BY <2>0, <3>1, <3>2, <3>3, OpenUncounted
  <2> QED BY <2>1, <2>2
<1> QED BY <1>1, <1>2 DEF Publishing

\* With one process, every step keeps what is said of ballots left without effect.
LEMMA DroppedStep ==
  ASSUME IInv, WriteInv, ReadsInv, DroppedInv, OneProcess, [Next]_vars
  PROVE  DroppedInv'
BY HeldStep, RecordsStay, PublishingStep, DroppedStays DEF DroppedInv

LEMMA DroppedInit == Init => DroppedInv
BY VotesAssumption DEF Init, DroppedInv, Held, ObservedSteps, BareSteps, SendSteps,
   CheckedSteps, Posted, EffectsFit, Publishing, QueuePlans, StillNext, FailedUnsent,
   DroppedIsTrue

\* With the one bot process the deployment runs, what staff read about a settled ballot
\* is what happened to the game: "winner queued" names a winner that has been next, and
\* a ballot reported as left without effect wrote nothing that still stands.
THEOREM ResultsAreTrue ==
  ASSUME OneProcess
  PROVE  Spec => []ResultIsTrue
<1>1. IInv /\ WriteInv /\ ReadsInv /\ DroppedInv /\ [Next]_vars => DroppedInv'
  BY DroppedStep
<1>2. Spec => []WriteInv BY StaffInductive, PTL
<1>3. Spec => []DroppedInv
  BY DroppedInit, <1>1, <1>2, Inductive, ReadsInductive, PTL DEF Spec
<1>4. DroppedInv /\ QueuedIsTrue => ResultIsTrue BY DEF DroppedInv, ResultIsTrue
<1> QED BY <1>3, <1>4, QueuedWasNext, PTL

===============================================================================
