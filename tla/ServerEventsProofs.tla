-------------------------- MODULE ServerEventsProofs --------------------------
(***************************************************************************)
(* Proofs about ServerEvents for any number of processes, restorations,    *)
(* players and rounds. Every step is one of a few kinds of commit; the     *)
(* inductive invariant EventInv joins the types, who may be sending, what  *)
(* a stop leaves to be sent, whose doing an open lock is, and which moves  *)
(* of the running round the row knows of.                                  *)
(***************************************************************************)
EXTENDS ServerEvents, FiniteSetTheorems, TLAPS

Steps == {"idle", "pass", "check", "before", "send", "settle", "halt", "done"}
AnswersOf == Answers("move") \cup {"none"}
Jobs == [kind : Kinds \cup {"none"}, who : SUBSET Players, target : 0..MaxRound, fresh : BOOLEAN, answer : AnswersOf]
RowTypes == /\ state \in States /\ stop \in Stops /\ op \in Handlers \cup {Nobody}
            /\ progress \in Progresses /\ open \subseteq Handlers
OtherTypes == /\ {vote, original, lock, ours, doubtful} \subseteq BOOLEAN /\ round \in 0..MaxRound
              /\ past \subseteq Handlers /\ current \subseteq Workers /\ moved \subseteq Players
              /\ step \in [Handlers -> Steps]
MoveNames(j) == j.kind = "move" => \E one \in Players : j.who = {one}
JobTypes == /\ job \in [Handlers -> Jobs] /\ \A h \in Handlers : MoveNames(job[h])
            /\ \A h \in Handlers : step[h] \in {"check", "before", "send", "settle"} => job[h].kind # "none"

\* Whoever sends owns the operation the row points to, and nobody sends for a row under review; a completed
\* event has no operation, and a pass that has read the present row has not read one it leaves alone.
Busy(h) == step[h] \in {"send", "settle"}
Owners ==
  /\ \A h \in Handlers : Busy(h) => op = h /\ state # "needs_review"
  /\ state = "complete" => op = Nobody
  /\ current # {} => state \notin {"complete", "needs_review"}

\* An open lock is the event's doing only while the lock is off, and not after a confirmed restore.
LockKnown ==
  /\ ours => ~lock
  /\ \A h \in Handlers :
       step[h] = "settle" /\ job[h].kind = "restore_lock" /\ job[h].answer = "confirmed" /\ original => ~ours

\* Once an event is stopped or under review no move is planned any more. Until then the row knows every move
\* of the running round, but for the one whose answer it has not kept yet.
Closed == stop # "none" \/ state = "needs_review"
Known == progress.round = round /\ moved \subseteq progress.moved
Unkept ==
  /\ op # Nobody /\ job[op].kind = "move" /\ step[op] \notin {"check", "before", "send"}
  /\ step[op] = "settle" => job[op].answer = "confirmed"
  /\ progress.round = round /\ moved \subseteq progress.moved \cup job[op].who
MovesKept == moved = {} \/ Closed \/ Known \/ Unkept
OpPlanned ==
  op # Nobody /\ ~Closed => /\ job[op].kind = "move" => job[op].target = progress.round
                            /\ job[op].kind = "round_warning" => progress.moved = {}
NotAgain ==
  \A h \in Handlers : op = h /\ step[h] \in {"check", "before", "send"} /\ job[h].kind = "move"
                         /\ job[h].target = round => job[h].who \cap moved = {}
MovesKnown == MovesKept /\ OpPlanned /\ NotAgain

EventInv == /\ RowTypes /\ OtherTypes /\ JobTypes
            /\ Owners /\ StopsStay /\ LockKnown /\ LockRestored /\ MovesKnown

-------------------------------------------------------------------------------
(* The kinds of step.                                                       *)

KeepsMoves(p) == p.moved = progress.moved /\ p.round = progress.round
Observes ==
  \E w \in Workers, s \in States, p \in Progresses :
    Observe(w, s, p) /\ KeepsMoves(p) /\ (s = "complete" => state = "complete")
Completes == \E w \in Workers : (original => lock) /\ Complete(w)
RecordsStop ==
  \E why \in {"rounds", "other"} :
    RecordStop(why) /\ (UNCHANGED step \/ \E w \in Workers : Rest(w) /\ Passing(w))
Halts == \E h \in Handlers : /\ step[h] \in {"idle", "pass", "halt"}
                             /\ Halt(h, Nobody) \/ (Overdue /\ Halt(h, op))
OneClaim(h, k, players, fresh, p, manual) ==
  /\ Claim(h, k, players, fresh, p, manual) /\ step[h] \in {"idle", "pass"}
  /\ IF manual THEN k = "restore_lock" /\ stop # "none" ELSE h \in current
  /\ k = "move" => /\ stop = "none" /\ p.round = round /\ KeepsMoves(p)
                   /\ \E one \in Players \ progress.moved : players = {one}
  /\ k = "round_warning" => progress.round # round /\ p.moved = {}
  /\ KeepsMoves(p) \/ k = "round_warning"
Claims ==
  \E h \in Handlers, k \in Kinds, players \in SUBSET Players, fresh, manual \in BOOLEAN, p \in Progresses :
    OneClaim(h, k, players, fresh, p, manual)
\* A step that leaves the row and the jobs alone.
OneRead(h, s) ==
  /\ UNCHANGED <<rowVars, job, past>> /\ GameSame /\ To(h, s)
  /\ \/ /\ step[h] = "idle" /\ s = "pass" /\ state \notin {"complete", "needs_review"}
        /\ current' = current \cup ({h} \cap Workers)
     \/ step[h] = "pass" /\ s = "idle" /\ current' \subseteq current
     \/ step[h] = "check" /\ s = "before" /\ current' = current
     \/ step[h] = "before" /\ s = "send" /\ current' = current /\ ~Withdrawn(h)
Reads == \E h \in Handlers, s \in {"idle", "pass", "before", "send"} : OneRead(h, s)
Reviews == /\ Overdue /\ state' = "needs_review"
           /\ UNCHANGED <<stop, op, progress, open, job, step, past>> /\ NewVersion /\ GameSame
OneDrop(h, s, p) ==
  /\ step[h] \in {"check", "before"} /\ (s = "complete" => state = "complete") /\ KeepsMoves(p)
  /\ Settle(h, s, p) /\ UNCHANGED doubtful /\ Rest(h)
Drops == \E h \in Handlers, s \in States, p \in Progresses : OneDrop(h, s, p)
\* What outcome makes of an answer.
OutcomeSound(h, s, p) ==
  /\ s \in States /\ p \in Progresses
  /\ s = "complete" => state = "complete" \/ (job[h].kind = "restore_lock" /\ job[h].answer = "confirmed")
  /\ p.moved = progress.moved \/ (job[h].kind = "move" /\ p.moved = progress.moved \cup job[h].who)
  /\ job[h].kind = "move" /\ job[h].answer = "confirmed" => p.moved = progress.moved \cup job[h].who
  /\ job[h].kind # "round_warning" => p.round = progress.round
OneSettle(h, s, p, r) ==
  /\ step[h] = "settle" /\ op = h /\ OutcomeSound(h, s, p)
  /\ To(h, r) /\ state' = Told(s) /\ progress' = p /\ op' = Nobody /\ open' = open \ {h} /\ NewVersion
  /\ job' = [job EXCEPT ![h] = NoJob] /\ doubtful' \in BOOLEAN
  /\ UNCHANGED <<stop, vote, original, gameVars, ours, moved, past>>
Settles ==
  \E h \in Handlers, s \in States, p \in Progresses, r \in {"idle", "done", "halt"} : OneSettle(h, s, p, r)
\* Ageing or answering a job changes nothing else of it.
SameTask(j, k) == j \in Jobs /\ j.kind = k.kind /\ j.who = k.who /\ j.target = k.target
Answered(jobs, h, a) == /\ jobs \in [Handlers -> Jobs] /\ jobs[h].answer = a
                        /\ \A g \in Handlers : SameTask(jobs[g], job[g])
                        /\ \A g \in Handlers \ {h} : jobs[g].answer = job[g].answer
OneSend(h, a) ==
  /\ step[h] = "send" /\ To(h, "settle") /\ op = h /\ state # "needs_review" /\ past' = past \ {h}
  /\ Answered(job', h, a)
  /\ \/ lock' = lock /\ ours' = ours /\ ~(job[h].kind \in LockKinds /\ a = "confirmed")
     \/ job[h].kind = "restore_lock" /\ original /\ lock' = TRUE /\ ours' = FALSE
     \/ /\ job[h].kind \in LockKinds /\ ~(job[h].kind = "restore_lock" /\ original)
        /\ lock' = FALSE /\ ours' \in BOOLEAN
  /\ \/ moved' = moved /\ ~(job[h].kind = "move" /\ a = "confirmed" /\ job[h].target = round)
     \/ job[h].kind = "move" /\ a = "confirmed" /\ job[h].target = round /\ moved' = moved \cup job[h].who
  /\ UNCHANGED <<rowVars, current, vote, original, round, doubtful>>
Sends == \E h \in Handlers, a \in AnswersOf : OneSend(h, a)
Crashes == \E h \in Handlers : Crash(h)

-------------------------------------------------------------------------------
\* Changing these fields of a progress leaves a progress, and its round and its moves as they are.
Like(q, p) == q \in Progresses /\ q.moved = p.moved /\ q.round = p.round
LEMMA Fields ==
  ASSUME NEW p \in Progresses
  PROVE  /\ Like([p EXCEPT !.issue = FALSE], p) /\ Like([p EXCEPT !.issue = TRUE], p)
         /\ Like([p EXCEPT !.ended = TRUE], p) /\ Like([p EXCEPT !.respawn = Nobody], p)
         /\ \A players \in SUBSET Players : Like([p EXCEPT !.warned = players], p)
         /\ \A d \in BOOLEAN : Like([p EXCEPT !.disabled = d], p)
         /\ p.disables < RetryLimit => Like([p EXCEPT !.disables = @ + 1], p)
         /\ p.restores < RestoreAttempts => Like([p EXCEPT !.restores = @ + 1], p)
         /\ \A n \in 0..RetryLimit : Like([p EXCEPT !.failures = n], p)
<1> USE DEF Progresses, Like
<1>1. Like([p EXCEPT !.issue = FALSE], p) /\ Like([p EXCEPT !.issue = TRUE], p) OBVIOUS
<1>2. Like([p EXCEPT !.ended = TRUE], p) /\ Like([p EXCEPT !.respawn = Nobody], p) OBVIOUS
<1>3. \A players \in SUBSET Players : Like([p EXCEPT !.warned = players], p) OBVIOUS
<1>4. \A d \in BOOLEAN : Like([p EXCEPT !.disabled = d], p) OBVIOUS
<1>5. ASSUME p.disables < RetryLimit PROVE Like([p EXCEPT !.disables = @ + 1], p)
  <2>1. p.disables + 1 \in 0..RetryLimit BY <1>5, LimitsAssumption
  <2> QED BY <2>1
<1>6. ASSUME p.restores < RestoreAttempts PROVE Like([p EXCEPT !.restores = @ + 1], p)
  <2>1. p.restores + 1 \in 0..RestoreAttempts BY <1>6, LimitsAssumption
  <2> QED BY <2>1
<1>7. \A n \in 0..RetryLimit : Like([p EXCEPT !.failures = n], p) OBVIOUS
<1> QED BY <1>1, <1>2, <1>3, <1>4, <1>5, <1>6, <1>7
LEMMA LikeLike == \A p, q, r : Like(q, p) /\ Like(r, q) => Like(r, p)
BY DEF Like
LEMMA NextRoundForms ==
  ASSUME NEW p \in Progresses
  PROVE  /\ NextRoundProgress(p) \in Progresses
         /\ NextRoundProgress(p).moved = {} /\ NextRoundProgress(p).round = p.round
<1>1. NewProgress \in Progresses /\ NewProgress.moved = {} BY LimitsAssumption, HandlersAssumption
  DEF NewProgress, Progresses
<1>2. PICK n \in Progresses : n = NewProgress /\ n.moved = {} BY <1>1
<1>3. NextRoundProgress(p) = [n EXCEPT !.round = p.round, !.started = p.started,
         !.disabled = p.disabled, !.disables = p.disables, !.failures = p.failures]
  BY <1>2 DEF NextRoundProgress
<1> HIDE DEF NewProgress
<1> QED BY <1>2, <1>3 DEF Progresses

AnyForm == \/ Observes \/ Completes \/ RecordsStop \/ Halts \/ Claims \/ Reads \/ Reviews \/ Drops
           \/ Settles \/ Sends \/ Crashes \/ Edit \/ NextRound

\* The pass of a worker, decision by decision.
LEMMA ReadForms ==
  ASSUME RowTypes, OtherTypes, NEW w \in Workers, Look(w) \/ Takeover(w) \/ Wait(w)
  PROVE  AnyForm
<1> USE DEF RowTypes, OtherTypes, Handlers
<1>1. CASE Look(w) BY <1>1 DEF Look, AnyForm, Reads, OneRead, To
<1>2. CASE Takeover(w) BY <1>2 DEF Takeover, AnyForm, Halts, Reviews
<1>3. CASE Wait(w) BY <1>3 DEF Wait, Passing, AnyForm, Reads, OneRead, Rest
<1> QED BY <1>1, <1>2, <1>3

LEMMA ObserveForms ==
  ASSUME RowTypes, OtherTypes, NEW w \in Workers, NEW s \in States, NEW p, Like(p, progress), Observe(w, s, p),
         s = "complete" => state = "complete"
  PROVE  Observes
BY DEF Observes, KeepsMoves, Like

LEMMA GiveForms ==
  ASSUME RowTypes, OtherTypes, NEW w \in Workers, Passing(w), NEW p, Like(p, progress), Give(w, p)
  PROVE  AnyForm
BY DEF Give, Review, Like, KeepsMoves, AnyForm, Halts, Observes, States, Handlers, Passing

LEMMA LastingForms ==
  ASSUME RowTypes, OtherTypes, NEW w \in Workers, NEW s \in States, Lasting(w, s),
         s = "complete" => state = "complete"
  PROVE  Observes
<1>1. Like(progress, progress) /\ Like([progress EXCEPT !.issue = TRUE], progress) BY Fields DEF RowTypes, Like
<1> QED BY <1>1 DEF Lasting, Noted, Review, Observes, KeepsMoves, Like, States

LEMMA StartForms ==
  ASSUME RowTypes, OtherTypes, NEW w \in Workers, Passing(w), NEW k \in Kinds \ {"move", "round_warning"},
         NEW players \in SUBSET Players, NEW p, Like(p, progress), Start(w, k, players, p)
  PROVE  Claims
<1>1. PICK fresh \in BOOLEAN : Claim(w, k, players, fresh, p, FALSE) /\ w \in current BY DEF Start, Unchanged
<1> QED BY <1>1 DEF Claims, OneClaim, Like, KeepsMoves, Passing, Handlers

LEMMA StopForms ==
  ASSUME NEW w \in Workers, Passing(w), NEW why \in {"rounds", "other"}, RecordStop(why), Rest(w)
  PROVE  RecordsStop
BY DEF RecordsStop

LEMMA RestoreForms ==
  ASSUME RowTypes, OtherTypes, NEW w \in Workers,
         Unreachable(w) \/ Unreadable(w) \/ FinishOff(w) \/ SayEnded(w) \/ RestoreStep(w) \/ RestoreLater(w)
  PROVE  AnyForm
<1> DEFINE p == [progress EXCEPT !.issue = FALSE]
<1>1. Like(progress, progress) /\ Like(p, progress) /\ Like([progress EXCEPT !.ended = TRUE], progress)
  BY Fields DEF RowTypes, Like
<1>2. p.restores < RestoreAttempts => Like([p EXCEPT !.restores = @ + 1], progress)
  BY <1>1, Fields, LikeLike DEF Like
<1>3. /\ {"stopping", "needs_review"} \subseteq States
      /\ {"ended", "restore_lock"} \subseteq Kinds \ {"move", "round_warning"}
  BY DEF States, Kinds, AfterStop, LockKinds
<1> HIDE DEF p
<1>4. CASE Unreachable(w) BY <1>4, <1>1, <1>3, ObserveForms DEF Unreachable, Review, AnyForm
<1>5. CASE Unreadable(w) BY <1>5, LastingForms DEF Unreadable, AnyForm, RowTypes
<1>6. CASE FinishOff(w) BY <1>6 DEF FinishOff, AnyForm, Completes
<1>7. CASE SayEnded(w) BY <1>7, <1>1, <1>3, StartForms DEF SayEnded, Restorable, AnyForm
<1>8. CASE RestoreStep(w)
  BY <1>8, <1>1, <1>2, <1>3, ObserveForms, StartForms DEF RestoreStep, Restorable, Review, AnyForm, Completes, p
<1>9. CASE RestoreLater(w)
  BY <1>9, <1>1, <1>3, LastingForms, ObserveForms DEF RestoreLater, Restorable, AnyForm, p
<1> QED BY <1>4, <1>5, <1>6, <1>7, <1>8, <1>9

LEMMA PrepareForms ==
  ASSUME RowTypes, OtherTypes, NEW w \in Workers, PrepareStep(w) \/ (Running(w) /\ LockNotOff(w))
  PROVE  AnyForm
<1> DEFINE p == [progress EXCEPT !.issue = FALSE]
<1> DEFINE off == [p EXCEPT !.disabled = @ \/ original]
<1>1. Like(progress, progress) /\ Like(p, progress) /\ Like([progress EXCEPT !.issue = TRUE], progress)
  BY Fields DEF RowTypes, Like
<1>2. p.disables < RetryLimit => Like([p EXCEPT !.disables = @ + 1], progress)
  BY <1>1, Fields, LikeLike DEF Like
<1>3. Like(off, progress)
  <2>1. (p.disabled \/ original) \in BOOLEAN OBVIOUS
  <2> QED BY <2>1, <1>1, Fields, LikeLike DEF Like
<1>4. /\ {"preparing", "needs_review"} \subseteq States
      /\ {"disable_lock", "armed"} \subseteq Kinds \ {"move", "round_warning"}
  BY DEF States, Kinds, LockKinds
<1> HIDE DEF p, off
<1>5. ASSUME Passing(w), LockChanged(w, p) \/ LockChanged(w, progress) PROVE AnyForm
  BY <1>5, <1>1, <1>4, StopForms, ObserveForms DEF LockChanged, Review, AnyForm
<1>6. CASE PrepareStep(w)
  BY <1>6, <1>1, <1>2, <1>3, <1>4, <1>5, ObserveForms, StartForms, GiveForms
  DEF PrepareStep, Preparing, Noted, AttemptsLeft, AnyForm, p, off
<1>7. CASE Running(w) /\ LockNotOff(w)
  <2>1. CASE lock /\ LockChanged(w, progress) BY <1>5, <1>7, <2>1 DEF Running
  <2>2. CASE Review(w, progress) BY <1>1, <1>4, <2>2, ObserveForms DEF Review, AnyForm
  <2>3. CASE Noted(w, state) BY <1>1, <2>3, ObserveForms DEF Noted, AnyForm, RowTypes
  <2>4. CASE Halt(w, Nobody) BY <1>7, <2>4 DEF Running, Passing, AnyForm, Halts, Handlers
  <2> QED BY <1>7, <2>1, <2>2, <2>3, <2>4 DEF LockNotOff
<1> QED BY <1>6, <1>7

LEMMA PlanForms ==
  ASSUME RowTypes, OtherTypes, NEW w \in Workers, NEW connected \in SUBSET Players, Plan(w, connected)
  PROVE  AnyForm
<1> DEFINE p == [progress EXCEPT !.issue = FALSE, !.warned = @ \cap connected]
<1> DEFINE told == IF PlayerMessages THEN p ELSE [p EXCEPT !.warned = connected]
<1>1. Like(p, progress) BY DEF RowTypes, Progresses, Like
<1>2. Like([p EXCEPT !.warned = progress.warned], progress) BY <1>1 DEF RowTypes, Progresses, Like
<1>3. Like(told, progress)
  <2>1. CASE PlayerMessages BY <1>1, <2>1
  <2>2. CASE ~PlayerMessages
    <3>1. Like([p EXCEPT !.warned = connected], p) BY <1>1, Fields DEF Like
    <3> HIDE DEF p
    <3> QED BY <1>1, <2>2, <3>1, LikeLike
  <2> QED BY <2>1, <2>2
<1>4. Like([told EXCEPT !.respawn = Nobody], progress)
  <2> HIDE DEF told
  <2>1. told \in Progresses BY <1>3 DEF Like
  <2>2. Like([told EXCEPT !.respawn = Nobody], told) BY <2>1, Fields
  <2> QED BY <1>3, <2>2, LikeLike
<1>5. state \in States /\ {"warming", "active"} \subseteq States BY DEF RowTypes, States
<1> HIDE DEF p, told
<1> QED BY <1>1, <1>2, <1>3, <1>4, <1>5, ObserveForms DEF Plan, AnyForm, p, told

LEMMA PlanOpForms ==
  ASSUME RowTypes, OtherTypes, NEW w \in Workers, NEW connected \in SUBSET Players,
         PlanRound(w, connected) \/ PlanPlayer(w, connected)
  PROVE  AnyForm
<1> USE DEF RowTypes
<1>1. CASE PlanRound(w, connected)
  <2> DEFINE p == [progress EXCEPT !.issue = FALSE]
  <2>1. Like(p, progress) BY Fields
  <2>2. /\ NextRoundProgress(p) \in Progresses /\ NextRoundProgress(p).moved = {}
        /\ NextRoundProgress(p).round = progress.round
    BY <2>1, NextRoundForms DEF Like
  <2>3. /\ w \in current /\ step[w] = "pass" /\ progress.round # round
        /\ \E fresh \in BOOLEAN : Claim(w, "round_warning", connected, fresh, NextRoundProgress(p), FALSE)
    BY <1>1, <2>1 DEF PlanRound, Planning, Running, Passing, Start, Unchanged, Like
  <2>4. "round_warning" \in Kinds BY DEF Kinds, RoundKinds
  <2> HIDE DEF p
  <2> QED BY <2>2, <2>3, <2>4 DEF AnyForm, Claims, OneClaim, Handlers
<1>2. CASE PlanPlayer(w, connected)
  <2> DEFINE p == [progress EXCEPT !.issue = FALSE, !.warned =
                     IF PlayerMessages THEN @ \cap connected ELSE connected]
  <2>1. Like(p, progress) BY DEF Progresses, Like
  <2>2. /\ w \in current /\ step[w] = "pass" /\ Passing(w) /\ stop = "none" /\ p.round = round
        /\ {"respawn", "player_warning", "ready", "move"} \subseteq Kinds
    BY <1>2 DEF PlanPlayer, Planning, Running, Passing, Start, Unchanged, Kinds, RoundKinds, PlayerKinds
  <2>3. CASE p.respawn \in connected /\ Start(w, "respawn", {p.respawn}, p)
    BY <2>1, <2>2, <2>3, StartForms DEF AnyForm
  <2>4. CASE Start(w, "ready", {}, p)
    BY <2>1, <2>2, <2>4, StartForms DEF AnyForm
  <2>5. ASSUME NEW one \in Eligible(p, connected),
               Start(w, IF one \in p.warned THEN "move" ELSE "player_warning", {one}, p)
        PROVE  AnyForm
    <3>1. one \in Players \ progress.moved BY <2>1 DEF Eligible, Like
    <3>2. CASE one \in p.warned
      <4>1. \E fresh \in BOOLEAN : Claim(w, "move", {one}, fresh, p, FALSE) BY <2>5, <3>2 DEF Start
      <4> HIDE DEF p
      <4> QED BY <2>1, <2>2, <3>1, <4>1 DEF AnyForm, Claims, OneClaim, KeepsMoves, Like, Handlers
    <3>3. CASE one \notin p.warned
      <4>1. Start(w, "player_warning", {one}, p) BY <2>5, <3>3
      <4> QED BY <2>1, <2>2, <3>1, <4>1, StartForms DEF AnyForm
    <3> QED BY <3>2, <3>3
  <2> HIDE DEF p
  <2> QED BY <1>2, <2>3, <2>4, <2>5 DEF PlanPlayer, p
<1> QED BY <1>1, <1>2

LEMMA PassForms ==
  ASSUME RowTypes, OtherTypes, NEW w \in Workers, Pass(w)
  PROVE  AnyForm
<1>1. ASSUME PlanStop(w) PROVE AnyForm
  BY <1>1, StopForms DEF PlanStop, Planning, Running, AnyForm
<1>2. ASSUME PlanGivesUp(w) PROVE AnyForm
  BY <1>2, GiveForms, Fields DEF PlanGivesUp, Planning, Running, RowTypes
<1> QED BY <1>1, <1>2, ReadForms, RestoreForms, PrepareForms, PlanForms, PlanOpForms DEF Pass

-------------------------------------------------------------------------------
(* Jobs and the result of an operation.                                     *)

LEMMA JobForms ==
  ASSUME JobTypes
  PROVE  /\ Stale \in [Handlers -> Jobs]
         /\ \A g \in Handlers : SameTask(Stale[g], job[g]) /\ Stale[g].answer = job[g].answer
         /\ \A h \in Handlers, a \in AnswersOf :
              Answered([Stale EXCEPT ![h].answer = a], h, a) /\ Answered([job EXCEPT ![h].answer = a], h, a)
<1> USE DEF SameTask
<1>1. \A j \in Jobs : LET q == [j EXCEPT !.fresh = FALSE] IN SameTask(q, j) /\ q.answer = j.answer BY DEF Jobs
<1>2. \A j \in Jobs, a \in AnswersOf : LET q == [j EXCEPT !.answer = a] IN SameTask(q, j) /\ q.answer = a BY DEF Jobs
<1>3. /\ Stale \in [Handlers -> Jobs]
      /\ \A g \in Handlers : SameTask(Stale[g], job[g]) /\ Stale[g].answer = job[g].answer
  BY <1>1 DEF Stale, JobTypes
<1>4. ASSUME NEW f \in [Handlers -> Jobs], NEW h \in Handlers, NEW a \in AnswersOf
      PROVE  LET q == [f EXCEPT ![h].answer = a]
             IN  /\ q \in [Handlers -> Jobs]
                 /\ \A g \in Handlers : SameTask(q[g], f[g]) /\ q[g].answer = (IF g = h THEN a ELSE f[g].answer)
  BY <1>2, <1>4
<1>5. ASSUME NEW h \in Handlers, NEW a \in AnswersOf
      PROVE  Answered([Stale EXCEPT ![h].answer = a], h, a) /\ Answered([job EXCEPT ![h].answer = a], h, a)
  <2>1. job \in [Handlers -> Jobs] BY DEF JobTypes
  <2>2. Answered([job EXCEPT ![h].answer = a], h, a) BY <1>4, <2>1 DEF Answered
  <2>3. Answered([Stale EXCEPT ![h].answer = a], h, a)
    <3> DEFINE f == Stale
    <3> DEFINE q == [f EXCEPT ![h].answer = a]
    <3> HIDE DEF f
    <3>1. q \in [Handlers -> Jobs] /\ \A g \in Handlers : SameTask(q[g], f[g])
          /\ q[g].answer = (IF g = h THEN a ELSE f[g].answer)
      BY <1>3, <1>4 DEF f
    <3> HIDE DEF q
    <3>2. \A g \in Handlers : SameTask(f[g], job[g]) /\ f[g].answer = job[g].answer BY <1>3 DEF f
    <3>3. Answered(q, h, a) BY <3>1, <3>2 DEF Answered
    <3> QED BY <3>3 DEF q, f
  <2> QED BY <2>2, <2>3
<1> QED BY <1>3, <1>5

LEMMA AnswerForms == \A k \in Kinds : Answers(k) \subseteq AnswersOf
BY DEF Answers, AnswersOf

LEMMA DoneMove ==
  ASSUME NEW j, j.kind = "move", progress \in Progresses, j.who \in SUBSET Players,
         ToRespawn(j) \in Players \cup {Nobody}, 0 \in 0..RetryLimit
  PROVE  /\ Done(j) \in Progresses
         /\ Done(j).moved = progress.moved \cup j.who /\ Done(j).round = progress.round
<1>1. Done(j) = [progress EXCEPT !.moved = @ \cup j.who, !.failures = 0, !.respawn = ToRespawn(j)]
  BY DEF Done
<1>2. Done(j) \in Progresses BY <1>1 DEF Progresses
<1>3. Done(j).moved = progress.moved \cup j.who /\ Done(j).round = progress.round BY <1>1 DEF Progresses
<1> QED BY <1>2, <1>3

LEMMA DoneForms ==
  ASSUME RowTypes, NEW j \in Jobs, MoveNames(j)
  PROVE  /\ Done(j) \in Progresses
         /\ Done(j).moved = IF j.kind = "move" THEN progress.moved \cup j.who ELSE progress.moved
         /\ j.kind # "round_warning" => Done(j).round = progress.round
<1> USE DEF RowTypes
<1>0. 0 \in 0..RetryLimit /\ \A p \in Progresses : p.started + 1 \in Nat BY LimitsAssumption DEF Progresses
<1>1. CASE j.kind = "round_warning"
  <2>1. PICK n \in Nat : n = progress.started + 1 BY <1>0
  <2>2. Done(j) = [progress EXCEPT !.round = j.target, !.started = n, !.warning = TRUE, !.warned = j.who,
                     !.failures = 0]
    BY <1>1, <2>1 DEF Done
  <2>3. j.target \in 0..MaxRound /\ j.who \in SUBSET Players BY DEF Jobs
  <2>4. Done(j) \in Progresses BY <1>0, <2>2, <2>3 DEF Progresses
  <2>5. Done(j).moved = progress.moved BY <2>2 DEF Progresses
  <2> QED BY <1>1, <2>4, <2>5
<1>2. CASE j.kind = "move"
  <2>1. PICK him \in Players : j.who = {him} BY <1>2 DEF MoveNames
  <2>2. (CHOOSE one \in j.who : TRUE) = him BY <2>1
  <2>3. ToRespawn(j) \in Players \cup {Nobody} BY <2>2 DEF ToRespawn, Progresses
  <2>4. j.who \in SUBSET Players BY <2>1
  <2> QED BY <1>0, <1>2, <2>3, <2>4, DoneMove
<1>3. CASE j.kind = "player_warning"
  <2>1. Done(j) = [progress EXCEPT !.warned = @ \cup j.who, !.failures = 0] BY <1>3 DEF Done
  <2>2. Done(j) \in Progresses BY <1>0, <2>1 DEF Progresses, Jobs
  <2>3. Done(j).moved = progress.moved /\ Done(j).round = progress.round BY <2>1 DEF Progresses
  <2> QED BY <1>3, <2>2, <2>3
<1>4. CASE j.kind = "respawn" \/ j.kind = "ready"
  BY <1>0, <1>4 DEF Done, Progresses
<1>5. CASE j.kind = "disable_lock" \/ j.kind = "ended"
  BY <1>0, <1>5 DEF Done, Progresses
<1>6. CASE j.kind \notin {"round_warning", "move", "player_warning", "respawn", "ready", "disable_lock", "ended"}
  BY <1>0, <1>6 DEF Done, Progresses
<1> QED BY <1>1, <1>2, <1>3, <1>4, <1>5, <1>6

LEMMA AfterForms == \A k \in Kinds : After(k) \in States /\ (After(k) = "complete" => k = "restore_lock")
BY DEF After, States, Kinds, AfterStop, LockKinds, RoundKinds, PlayerKinds

LEMMA OutcomeForms ==
  ASSUME RowTypes, JobTypes, NEW h \in Handlers, step[h] = "settle"
  PROVE  OutcomeSound(h, Outcome(h).state, Outcome(h).progress)
<1> DEFINE j == job[h]
<1> DEFINE cleared == [progress EXCEPT !.respawn = Nobody]
<1> DEFINE counted == IF progress.failures < RetryLimit THEN progress.failures + 1 ELSE RetryLimit
<1>1. j \in Jobs /\ MoveNames(j) /\ j.kind \in Kinds BY DEF JobTypes, Jobs
<1>2. counted \in 0..RetryLimit BY LimitsAssumption DEF RowTypes, Progresses
<1>3. Like(progress, progress) /\ Like(cleared, progress) BY Fields DEF RowTypes, Like
<1>4. Like([progress EXCEPT !.failures = counted], progress)
  <2> HIDE DEF counted
  <2> QED BY <1>2, Fields DEF RowTypes
<1>5. Like([cleared EXCEPT !.failures = counted], progress)
  <2>1. cleared \in Progresses BY <1>3 DEF Like
  <2> HIDE DEF counted, cleared
  <2> QED BY <1>2, <1>3, <2>1, Fields, LikeLike
<1>6. Like([Done(j) EXCEPT !.failures = progress.failures], Done(j))
  <2>1. progress.failures \in 0..RetryLimit BY DEF RowTypes, Progresses
  <2> HIDE DEF j
  <2> QED BY <1>1, <2>1, Fields, DoneForms
<1>7. /\ Done(j) \in Progresses
      /\ Done(j).moved = IF j.kind = "move" THEN progress.moved \cup j.who ELSE progress.moved
      /\ j.kind # "round_warning" => Done(j).round = progress.round
  BY <1>1, DoneForms
<1>8. After(j.kind) \in States /\ (After(j.kind) = "complete" => j.kind = "restore_lock") BY <1>1, AfterForms
<1>9. {"active", "stopping", "needs_review", "preparing"} \subseteq States /\ state \in States BY DEF States, RowTypes
<1> HIDE DEF j, cleared, counted
<1>10. ASSUME j.answer # "confirmed", NEW p, Like(p, progress), NEW s \in States, s = "complete" => state = "complete"
       PROVE  OutcomeSound(h, s, p)
  BY <1>10 DEF OutcomeSound, Like, j
<1>11. OutcomeSound(h, After(j.kind), Done(j)) \/ j.answer # "confirmed"
  BY <1>7, <1>8 DEF OutcomeSound, j
<1>12. CASE j.answer \in {"precondition", "unchanged"}
  <2>1. \/ Outcome(h).state = "active" /\ Outcome(h).progress = cleared
        \/ Outcome(h).state = "active" /\ Outcome(h).progress = [cleared EXCEPT !.failures = counted]
    BY <1>12 DEF Outcome, j, cleared, counted
  <2> QED BY <1>3, <1>5, <1>9, <1>10, <1>12, <2>1
<1>13. CASE j.answer \notin {"precondition", "unchanged"} /\ Accepted(j)
  <2>1. Outcome(h).state = After(j.kind) /\ Outcome(h).progress = Done(j)
    BY <1>13 DEF Outcome, j
  <2> QED BY <1>11, <1>13, <2>1 DEF Accepted
<1>14. CASE j.answer \notin {"precondition", "unchanged"} /\ ~Accepted(j)
  <2> DEFINE o == Outcome(h)
  <2>0. j.answer # "confirmed" BY <1>14 DEF Accepted
  <2>1. CASE j.kind = "restore_lock" \/ ~vote \/ j.answer = "thrown"
    <3>1. o.progress = progress /\ o.state \in {"stopping", "needs_review", state}
      BY <1>14, <2>1 DEF Outcome, j
    <3> QED BY <1>3, <1>9, <1>10, <2>0, <3>1
  <2>2. CASE j.kind # "restore_lock" /\ vote /\ j.answer # "thrown"
    <3>1. CASE j.kind \in {"disable_lock", "round_warning"}
      <4>1. /\ o.state \in {"preparing", state}
            /\ o.progress = progress \/ o.progress = [progress EXCEPT !.failures = counted]
        BY <1>14, <2>2, <3>1 DEF Outcome, j, counted
      <4> QED BY <1>3, <1>4, <1>9, <1>10, <2>0, <4>1
    <3>2. CASE j.kind = "respawn"
      <4>1. o.state = "active" /\ (o.progress = cleared \/ o.progress = [cleared EXCEPT !.failures = counted])
        BY <1>14, <2>2, <3>2 DEF Outcome, j, cleared, counted
      <4> QED BY <1>3, <1>5, <1>9, <1>10, <2>0, <4>1
    <3>3. CASE j.kind = "move"
      <4>1. /\ o.state = "active"
            /\ o.progress = progress \/ o.progress = [progress EXCEPT !.failures = counted] \/ o.progress = Done(j)
        BY <1>14, <2>2, <3>3 DEF Outcome, j, counted
      <4>2. OutcomeSound(h, "active", Done(j)) BY <1>7, <1>9, <2>0, <3>3 DEF OutcomeSound, j
      <4> QED BY <1>3, <1>4, <1>9, <1>10, <2>0, <4>1, <4>2
    <3>4. CASE j.kind \notin {"disable_lock", "round_warning", "respawn", "move"}
      <4>1. o.state = After(j.kind) /\ o.progress = [Done(j) EXCEPT !.failures = progress.failures]
        BY <1>14, <2>2, <3>4 DEF Outcome, j
      <4>2. Like(o.progress, progress) BY <1>6, <1>7, <3>4, <4>1 DEF Like
      <4> QED BY <1>8, <1>10, <2>0, <2>2, <4>1, <4>2
    <3> QED BY <3>1, <3>2, <3>3, <3>4
  <2> QED BY <2>1, <2>2
<1> QED BY <1>12, <1>13, <1>14

\* An operation, and the others who act.
\* An answer is settled for the operation the row points to.
LEMMA SettleForms == ASSUME EventInv, NEW h \in Handlers, SettleAnswer(h) PROVE Settles
<1>1. step[h] = "settle" /\ op = h /\ state # "needs_review" BY DEF SettleAnswer, EventInv, Owners, Busy
<1>2. PICK s \in States, p \in Progresses : s = Outcome(h).state /\ p = Outcome(h).progress /\ OutcomeSound(h, s, p)
  BY <1>1, OutcomeForms DEF EventInv, OutcomeSound
<1>3. PICK r \in {"idle", "done", "halt"} : To(h, r) BY DEF SettleAnswer, Rest
<1>4. doubtful' \in BOOLEAN BY DEF SettleAnswer, EventInv, OtherTypes
<1> HIDE DEF Outcome
<1>5. Settle(h, s, p) BY <1>2 DEF SettleAnswer
<1> QED BY <1>1, <1>2, <1>3, <1>4, <1>5 DEF Settles, OneSettle, Settle

\* The game acts on the one operation that is sent.
LEMMA SendForms == ASSUME EventInv, NEW h \in Handlers, Send(h) PROVE Sends
<1>1. step[h] = "send" /\ op = h /\ state # "needs_review" BY DEF Send, EventInv, Owners, Busy
<1>2. job \in [Handlers -> Jobs] /\ job[h].kind \in Kinds BY <1>1 DEF EventInv, JobTypes, Jobs
<1>3. PICK effect \in Answers(job[h].kind), answer \in Answers(job[h].kind) :
        /\ effect # answer => effect = "confirmed" /\ answer \in {"unknown", "thrown"}
        /\ answer = "confirmed" /\ job[h].kind \in LockKinds => job[h].fresh
        /\ Write(h, effect, answer)
        /\ moved' = IF job[h].kind = "move" /\ answer = "confirmed" /\ job[h].target = round
                      THEN moved \cup job[h].who ELSE moved
  BY DEF Send
<1>4. answer \in AnswersOf BY <1>2, AnswerForms
<1>5. job' = [Stale EXCEPT ![h].answer = answer] \/ job' = [job EXCEPT ![h].answer = answer]
  BY <1>3 DEF Write
<1>6. Answered(job', h, answer)
  <2>1. JobTypes BY DEF EventInv
  <2>2. CASE job' = [Stale EXCEPT ![h].answer = answer] BY <1>4, <2>1, <2>2, JobForms
  <2>3. CASE job' = [job EXCEPT ![h].answer = answer] BY <1>4, <2>1, <2>3, JobForms
  <2> QED BY <1>5, <2>2, <2>3
<1>7. \/ lock' = lock /\ ours' = ours /\ ~(job[h].kind \in LockKinds /\ answer = "confirmed")
      \/ job[h].kind = "restore_lock" /\ original /\ lock' = TRUE /\ ours' = FALSE
      \/ /\ job[h].kind \in LockKinds /\ ~(job[h].kind = "restore_lock" /\ original)
         /\ lock' = FALSE /\ ours' \in BOOLEAN
  BY <1>3 DEF Write, EventInv, OtherTypes
<1> QED BY <1>1, <1>3, <1>4, <1>6, <1>7 DEF Send, Sends, OneSend

LEMMA ExecuteForms ==
  ASSUME EventInv, NEW h \in Handlers, Execute(h)
  PROVE  AnyForm
<1> USE DEF EventInv, RowTypes
<1>1. Like(progress, progress) /\ Like([progress EXCEPT !.respawn = Nobody], progress) BY Fields DEF Like
<1>2. {"stopping", "needs_review", "active"} \subseteq States \ {"complete"} BY DEF States
<1>3. ASSUME NEW here \in BOOLEAN, Unsent(h, here), step[h] \in {"check", "before"} PROVE AnyForm
  <2>1. PICK s \in States : /\ s = (IF stop # "none" THEN "stopping"
                                             ELSE IF vote /\ here THEN state ELSE "needs_review")
                            /\ s = "complete" => state = "complete"
    BY <1>2
  <2> QED BY <1>1, <1>3, <2>1 DEF Unsent, AnyForm, Drops, OneDrop, KeepsMoves, Like
<1>4. ASSUME NEW s \in States, NEW p, Like(p, progress), s = "complete" => state = "complete", step[h] = "check",
             Settle(h, s, p), UNCHANGED doubtful, Rest(h)
      PROVE  AnyForm
  BY <1>4 DEF AnyForm, Drops, OneDrop, KeepsMoves, Like
<1>5. CASE Check(h)
  <2>1. ASSUME Settle(h, IF job[h].kind = "restore_lock" THEN "stopping"
                       ELSE IF vote THEN state ELSE "needs_review", progress),
               step[h] = "check", UNCHANGED doubtful, Rest(h)
        PROVE  AnyForm
    <3>1. PICK s \in States :
            /\ s = (IF job[h].kind = "restore_lock" THEN "stopping" ELSE IF vote THEN state ELSE "needs_review")
            /\ s = "complete" => state = "complete"
      BY <1>2
    <3> QED BY <1>1, <1>4, <2>1, <3>1
  <2>2. ASSUME Settle(h, IF job[h].kind = "round_warning" THEN state ELSE "active",
                   [progress EXCEPT !.respawn = Nobody]),
               step[h] = "check", UNCHANGED doubtful, Rest(h)
        PROVE  AnyForm
    <3>1. PICK s \in States : /\ s = (IF job[h].kind = "round_warning" THEN state ELSE "active")
                              /\ s = "complete" => state = "complete"
      BY <1>2
    <3> QED BY <1>1, <1>4, <2>2, <3>1
  <2>3. ASSUME step[h] = "check", To(h, "before"), UNCHANGED <<rowVars, current, job, past>>, GameSame PROVE AnyForm
    BY <2>3 DEF AnyForm, Reads, OneRead
  <2> QED BY <1>3, <1>5, <2>1, <2>2, <2>3 DEF Check
<1>6. CASE Before(h) BY <1>3, <1>6 DEF Before, AnyForm, Reads, OneRead
<1>7. CASE Send(h) \/ SettleAnswer(h) BY <1>7, SendForms, SettleForms DEF AnyForm
<1>8. CASE HaltAfter(h) BY <1>8 DEF HaltAfter, AnyForm, Halts
<1> QED BY <1>5, <1>6, <1>7, <1>8 DEF Execute

LEMMA StepForms == EventInv /\ Next => AnyForm
<1> SUFFICES ASSUME EventInv, Next PROVE AnyForm OBVIOUS
<1> USE DEF EventInv
<1>1. ASSUME NEW h \in Restores, BeginRestore(h) PROVE AnyForm
  BY <1>1 DEF BeginRestore, AnyForm, Claims, OneClaim, KeepsMoves, RowTypes, Kinds, LockKinds, Handlers
<1>2. CASE Expire \/ StaffStop BY <1>2 DEF Expire, StaffStop, AnyForm, RecordsStop
<1>3. ASSUME NEW h \in Handlers, Crash(h) PROVE AnyForm BY <1>3 DEF AnyForm, Crashes
<1>4. CASE Edit \/ NextRound BY <1>4 DEF AnyForm
<1> QED BY PassForms, ExecuteForms, <1>1, <1>2, <1>3, <1>4 DEF Next

-------------------------------------------------------------------------------
(* Each kind of step preserves the invariant.                               *)

\* One handler's step changes, or none.
Stepped(h, r) == /\ step' \in [Handlers -> Steps] /\ step'[h] = r
                 /\ \A g \in Handlers \ {h} : step'[g] = step[g]
LEMMA Stepping ==
  ASSUME OtherTypes, NEW h \in Handlers
  PROVE  /\ \A r \in Steps : To(h, r) => Stepped(h, r)
         /\ Rest(h) => \E r \in {"idle", "done"} : Stepped(h, r)
BY DEF OtherTypes, To, Rest, Stepped, Steps
LEMMA NoJobs == NoJob \in Jobs /\ NoJob.kind = "none"
BY LimitsAssumption DEF NoJob, Jobs, AnswersOf

LEMMA ObservesKeep == ASSUME EventInv, Observes PROVE EventInv'
<1> USE HandlersAssumption DEF EventInv, Observe, Unchanged, KeepsMoves, Handlers, GameSame, gameVars, history,
      NewVersion, Stepped
<1>a. PICK w \in Workers, s \in States, p \in Progresses :
        Observe(w, s, p) /\ KeepsMoves(p) /\ (s = "complete" => state = "complete")
  BY DEF Observes
<1>b. PICK r \in {"idle", "done"} : Stepped(w, r) BY <1>a, Stepping DEF Observe, Handlers
<1>1. RowTypes' BY <1>a, <1>b DEF RowTypes
<1>2. OtherTypes' BY <1>a, <1>b DEF OtherTypes
<1>3. JobTypes' BY <1>a, <1>b DEF JobTypes, MoveNames, OtherTypes, RowTypes
<1>4. Owners' BY <1>a, <1>b DEF Owners, Busy, RowTypes
<1>5. StopsStay' BY <1>a, <1>b DEF StopsStay, StopHolds, StopSticks, Sending, RowTypes, Owners, Busy
<1>6. LockKnown' BY <1>a, <1>b DEF LockKnown, OtherTypes, Owners, Busy
<1>7. LockRestored' BY <1>a, <1>b DEF LockRestored, OtherTypes, LockKnown, Owners
<1>8. MovesKnown' BY <1>a, <1>b DEF MovesKnown, MovesKept, OpPlanned, NotAgain, Closed, Known, Unkept, RowTypes,
      OtherTypes, Owners, Busy
<1> QED BY <1>1, <1>2, <1>3, <1>4, <1>5, <1>6, <1>7, <1>8 DEF EventInv

LEMMA CompletesKeep == ASSUME EventInv, Completes PROVE EventInv'
<1> USE HandlersAssumption DEF EventInv, Complete, Handlers, States, GameSame, gameVars, history, NewVersion, Stepped
<1>a. PICK w \in Workers : (original => lock) /\ Complete(w) BY DEF Completes
<1>b. PICK r \in {"idle", "done"} : Stepped(w, r) BY <1>a, Stepping DEF Complete, Handlers
<1>1. RowTypes' BY <1>a, <1>b DEF RowTypes
<1>2. OtherTypes' BY <1>a, <1>b DEF OtherTypes
<1>3. JobTypes' BY <1>a, <1>b DEF JobTypes, MoveNames, OtherTypes, RowTypes
<1>4. Owners' BY <1>a, <1>b DEF Owners, Busy, RowTypes
<1>5. StopsStay' BY <1>a, <1>b DEF StopsStay, StopHolds, StopSticks, Sending, RowTypes, Owners, Busy
<1>6. LockKnown' BY <1>a, <1>b DEF LockKnown, OtherTypes, Owners, Busy
<1>7. LockRestored' BY <1>a, <1>b DEF LockRestored, OtherTypes, LockKnown, Owners
<1>8. MovesKnown' BY <1>a, <1>b DEF MovesKnown, MovesKept, OpPlanned, NotAgain, Closed, Known, Unkept, RowTypes,
      OtherTypes, Owners, Busy
<1> QED BY <1>1, <1>2, <1>3, <1>4, <1>5, <1>6, <1>7, <1>8 DEF EventInv

LEMMA RecordsStopKeep == ASSUME EventInv, RecordsStop PROVE EventInv'
<1> USE HandlersAssumption DEF EventInv, RecordStop, Stops, States, Sending, AfterStop, GameSame, gameVars,
      history, NewVersion
<1>a. PICK why \in {"rounds", "other"} :
        RecordStop(why) /\ (UNCHANGED step \/ \E w \in Workers : Rest(w) /\ Passing(w))
  BY DEF RecordsStop
<1>b. \/ UNCHANGED step
      \/ \E w \in Workers, r \in {"idle", "done"} : Stepped(w, r) /\ step[w] = "pass"
  BY <1>a, Stepping DEF Passing, Handlers
<1>c. /\ step' \in [Handlers -> Steps]
      /\ \A g \in Handlers : step'[g] = step[g] \/ (step[g] = "pass" /\ step'[g] \in {"idle", "done"})
  BY <1>b DEF Stepped, OtherTypes, Handlers
<1>1. RowTypes' BY <1>a, <1>c DEF RowTypes
<1>2. OtherTypes' BY <1>a, <1>c DEF OtherTypes
<1>3. JobTypes' BY <1>a, <1>c DEF JobTypes, MoveNames, OtherTypes, RowTypes
<1>4. Owners' BY <1>a, <1>c DEF Owners, Busy, RowTypes
<1>5. StopsStay' BY <1>a, <1>c DEF StopsStay, StopHolds, StopSticks, RowTypes, Owners, Busy
<1>6. LockKnown' BY <1>a, <1>c DEF LockKnown, OtherTypes, Owners, Busy
<1>7. LockRestored' BY <1>a, <1>c DEF LockRestored, OtherTypes, LockKnown, Owners
<1>8. MovesKnown' BY <1>a, <1>c DEF MovesKnown, MovesKept, OpPlanned, NotAgain, Closed, Known, Unkept, RowTypes,
      OtherTypes, Owners, Busy
<1> QED BY <1>1, <1>2, <1>3, <1>4, <1>5, <1>6, <1>7, <1>8 DEF EventInv

LEMMA HaltsKeep == ASSUME EventInv, Halts PROVE EventInv'
<1> USE HandlersAssumption DEF EventInv, Overdue, Handlers, Stops, States, Sending, AfterStop, GameSame, gameVars,
      history, NewVersion, Stepped
<1>a. PICK h \in Handlers :
        step[h] \in {"idle", "pass", "halt"} /\ (Halt(h, Nobody) \/ (Overdue /\ Halt(h, op)))
  BY DEF Halts
<1>b. PICK r \in {"idle", "done"} : Stepped(h, r) BY <1>a, Stepping DEF Halt
<1>c. /\ UNCHANGED <<progress, job>> /\ GameSame
      /\ \/ UNCHANGED <<state, stop, op, open, past>> /\ current' \subseteq current
         \/ /\ state \notin {"complete", "needs_review"} /\ (op # Nobody => Overdue) /\ op' = Nobody
            /\ state' = "stopping"
            /\ stop' = (IF stop = "none" THEN "other" ELSE stop) /\ past' = (IF stop = "none" THEN Sending ELSE past)
            /\ open' \subseteq open /\ current' = {}
  BY <1>a DEF Halt, Halted, Release, NewVersion
<1>1. RowTypes' BY <1>a, <1>b, <1>c DEF RowTypes
<1>2. OtherTypes' BY <1>a, <1>b, <1>c DEF OtherTypes
<1>3. JobTypes' BY <1>a, <1>b, <1>c DEF JobTypes, MoveNames, OtherTypes, RowTypes
<1>4. Owners' BY <1>a, <1>b, <1>c DEF Owners, Busy, RowTypes
<1>5. StopsStay' BY <1>a, <1>b, <1>c DEF StopsStay, StopHolds, StopSticks, RowTypes, Owners, Busy
<1>6. LockKnown' BY <1>a, <1>b, <1>c DEF LockKnown, OtherTypes, Owners, Busy
<1>7. LockRestored' BY <1>a, <1>b, <1>c DEF LockRestored, OtherTypes, LockKnown, Owners
<1>8. MovesKnown' BY <1>a, <1>b, <1>c DEF MovesKnown, MovesKept, OpPlanned, NotAgain, Closed, Known, Unkept,
      RowTypes, OtherTypes, Owners, Busy
<1> QED BY <1>1, <1>2, <1>3, <1>4, <1>5, <1>6, <1>7, <1>8 DEF EventInv

LEMMA ClaimsKeep == ASSUME EventInv, Claims PROVE EventInv'
<1> USE HandlersAssumption DEF EventInv, OneClaim, Claim, MayClaim, Handlers, KeepsMoves, States, AfterStop, Kinds,
      LockKinds, RoundKinds, PlayerKinds, GameSame, gameVars, history, NewVersion, Stepped
<1>a. PICK h \in Handlers, k \in Kinds, players \in SUBSET Players, fresh, manual \in BOOLEAN,
         p \in Progresses :
        OneClaim(h, k, players, fresh, p, manual)
  BY DEF Claims
<1>b. Stepped(h, "check") BY <1>a, Stepping DEF Claim, Steps
<1>c. /\ job' \in [Handlers -> Jobs] /\ \A g \in Handlers \ {h} : job'[g] = job[g]
      /\ job'[h].kind = k /\ job'[h].who = players /\ job'[h].target = (IF k \in RoundKinds THEN round ELSE 0)
  <2> DEFINE j == [kind |-> k, who |-> players, fresh |-> fresh, answer |-> "none",
                    target |-> IF k \in RoundKinds THEN round ELSE 0]
  <2>1. j \in Jobs BY LimitsAssumption DEF OtherTypes, Jobs, AnswersOf
  <2>2. job' = [job EXCEPT ![h] = j] BY <1>a DEF Claim
  <2>3. j.kind = k /\ j.who = players /\ j.target = (IF k \in RoundKinds THEN round ELSE 0) OBVIOUS
  <2> HIDE DEF j
  <2> QED BY <2>1, <2>2, <2>3 DEF JobTypes
<1>1. RowTypes' BY <1>a, <1>b, <1>c DEF RowTypes
<1>2. OtherTypes' BY <1>a, <1>b, <1>c DEF OtherTypes
<1>3. JobTypes' BY <1>a, <1>b, <1>c DEF JobTypes, MoveNames, OtherTypes, RowTypes
<1>4. Owners' BY <1>a, <1>b, <1>c DEF Owners, Busy, RowTypes
<1>5. StopsStay' BY <1>a, <1>b, <1>c DEF StopsStay, StopHolds, StopSticks, Sending, RowTypes, Owners, Busy
<1>6. LockKnown' BY <1>a, <1>b, <1>c DEF LockKnown, OtherTypes, Owners, Busy
<1>7. LockRestored' BY <1>a, <1>b, <1>c DEF LockRestored, OtherTypes, LockKnown, Owners
<1>8. MovesKnown' BY <1>a, <1>b, <1>c DEF MovesKnown, MovesKept, OpPlanned, NotAgain, Closed, Known, Unkept,
      RowTypes, OtherTypes, Owners, Busy
<1> QED BY <1>1, <1>2, <1>3, <1>4, <1>5, <1>6, <1>7, <1>8 DEF EventInv

LEMMA ReadsKeep == ASSUME EventInv, Reads PROVE EventInv'
<1> USE HandlersAssumption DEF EventInv, OneRead, Withdrawn, AfterStop, rowVars, GameSame, gameVars, history,
      NewVersion, Stepped
<1>a. PICK h \in Handlers, s \in {"idle", "pass", "before", "send"} :
        OneRead(h, s)
  BY DEF Reads
<1>b. Stepped(h, s) BY <1>a, Stepping DEF Steps
<1>1. RowTypes' BY <1>a, <1>b DEF RowTypes
<1>2. OtherTypes' BY <1>a, <1>b DEF OtherTypes
<1>3. JobTypes' BY <1>a, <1>b DEF JobTypes, MoveNames, OtherTypes, RowTypes
<1>4. Owners' BY <1>a, <1>b DEF Owners, Busy, RowTypes
<1>5. StopsStay' BY <1>a, <1>b DEF StopsStay, StopHolds, StopSticks, Sending, RowTypes, Owners, Busy
<1>6. LockKnown' BY <1>a, <1>b DEF LockKnown, OtherTypes, Owners, Busy
<1>7. LockRestored' BY <1>a, <1>b DEF LockRestored, OtherTypes, LockKnown, Owners
<1>8. MovesKnown' BY <1>a, <1>b DEF MovesKnown, MovesKept, OpPlanned, NotAgain, Closed, Known, Unkept, RowTypes,
      OtherTypes, Owners, Busy
<1> QED BY <1>1, <1>2, <1>3, <1>4, <1>5, <1>6, <1>7, <1>8 DEF EventInv

LEMMA ReviewsKeep == ASSUME EventInv, Reviews PROVE EventInv'
<1> USE HandlersAssumption DEF EventInv, Reviews, Overdue, States, GameSame, gameVars, history, NewVersion
<1>1. RowTypes' BY DEF RowTypes
<1>2. OtherTypes' BY DEF OtherTypes
<1>3. JobTypes' BY DEF JobTypes, MoveNames, OtherTypes, RowTypes
<1>4. Owners' BY DEF Owners, Busy, RowTypes
<1>5. StopsStay' BY DEF StopsStay, StopHolds, StopSticks, Sending, RowTypes, Owners, Busy
<1>6. LockKnown' BY DEF LockKnown, OtherTypes, Owners, Busy
<1>7. LockRestored' BY DEF LockRestored, OtherTypes, LockKnown, Owners
<1>8. MovesKnown' BY DEF MovesKnown, MovesKept, OpPlanned, NotAgain, Closed, Known, Unkept, RowTypes, OtherTypes,
      Owners, Busy
<1> QED BY <1>1, <1>2, <1>3, <1>4, <1>5, <1>6, <1>7, <1>8 DEF EventInv

LEMMA DropsKeep == ASSUME EventInv, Drops PROVE EventInv'
<1> USE HandlersAssumption DEF EventInv, OneDrop, Settle, Told, Handlers, KeepsMoves, States, Stops, NoJob,
      GameSame, gameVars, history, NewVersion, Stepped
<1>a. PICK h \in Handlers, s \in States, p \in Progresses :
        OneDrop(h, s, p)
  BY DEF Drops
<1>b. PICK r \in {"idle", "done"} : Stepped(h, r) BY <1>a, Stepping
<1>c. /\ job' \in [Handlers -> Jobs] /\ \A g \in Handlers : job'[g] = job[g] \/ (g = h /\ job'[g] = NoJob)
      /\ job'[h] = job[h] \/ ~(op = h /\ state = "needs_review")
  BY <1>a, NoJobs DEF Settle, JobTypes
<1>1. RowTypes' BY <1>a, <1>b, <1>c DEF RowTypes
<1>2. OtherTypes' BY <1>a, <1>b, <1>c DEF OtherTypes
<1>3. JobTypes' BY <1>a, <1>b, <1>c DEF JobTypes, MoveNames, OtherTypes, RowTypes
<1>4. Owners' BY <1>a, <1>b, <1>c DEF Owners, Busy, RowTypes
<1>5. StopsStay' BY <1>a, <1>b, <1>c DEF StopsStay, StopHolds, StopSticks, Sending, RowTypes, Owners, Busy
<1>6. LockKnown' BY <1>a, <1>b, <1>c DEF LockKnown, OtherTypes, Owners, Busy
<1>7. LockRestored' BY <1>a, <1>b, <1>c DEF LockRestored, OtherTypes, LockKnown, Owners
<1>8. MovesKnown' BY <1>a, <1>b, <1>c DEF MovesKnown, MovesKept, OpPlanned, NotAgain, Closed, Known, Unkept,
      RowTypes, OtherTypes, Owners, Busy
<1> QED BY <1>1, <1>2, <1>3, <1>4, <1>5, <1>6, <1>7, <1>8 DEF EventInv

LEMMA SettlesKeep == ASSUME EventInv, Settles PROVE EventInv'
<1> USE HandlersAssumption DEF EventInv, OneSettle, Told, OutcomeSound, Handlers, States, Stops, NoJob, GameSame,
      gameVars, history, NewVersion, Stepped
<1>a. PICK h \in Handlers, s \in States, p \in Progresses, r \in {"idle", "done", "halt"} :
        OneSettle(h, s, p, r)
  BY DEF Settles
<1>b. Stepped(h, r) BY <1>a, Stepping DEF Steps
<1>c. job' \in [Handlers -> Jobs] /\ job'[h] = NoJob /\ \A g \in Handlers \ {h} : job'[g] = job[g]
  BY <1>a, NoJobs DEF JobTypes
<1>1. RowTypes' BY <1>a, <1>b, <1>c DEF RowTypes
<1>2. OtherTypes' BY <1>a, <1>b, <1>c DEF OtherTypes
<1>3. JobTypes' BY <1>a, <1>b, <1>c DEF JobTypes, MoveNames, OtherTypes, RowTypes
<1>4. Owners' BY <1>a, <1>b, <1>c DEF Owners, Busy, RowTypes
<1>5. StopsStay' BY <1>a, <1>b, <1>c DEF StopsStay, StopHolds, StopSticks, Sending, RowTypes, Owners, Busy
<1>6. LockKnown' BY <1>a, <1>b, <1>c DEF LockKnown, OtherTypes, Owners, Busy
<1>7. LockRestored' BY <1>a, <1>b, <1>c DEF LockRestored, OtherTypes, LockKnown, Owners
<1>8. MovesKnown' BY <1>a, <1>b, <1>c DEF MovesKnown, MovesKept, OpPlanned, NotAgain, Closed, Known, Unkept,
      RowTypes, OtherTypes, Owners, Busy
<1> QED BY <1>1, <1>2, <1>3, <1>4, <1>5, <1>6, <1>7, <1>8 DEF EventInv

LEMMA SendsKeep == ASSUME EventInv, Sends PROVE EventInv'
<1> USE HandlersAssumption DEF EventInv, OneSend, Answered, SameTask, Handlers, Jobs, LockKinds, rowVars, Stepped
<1>a. PICK h \in Handlers, a \in AnswersOf :
        OneSend(h, a)
  BY DEF Sends
<1>b. Stepped(h, "settle") BY <1>a, Stepping DEF Steps
<1>1. RowTypes' BY <1>a, <1>b DEF RowTypes
<1>2. OtherTypes' BY <1>a, <1>b DEF OtherTypes
<1>3. JobTypes' BY <1>a, <1>b DEF JobTypes, MoveNames, OtherTypes, RowTypes
<1>4. Owners' BY <1>a, <1>b DEF Owners, Busy, RowTypes
<1>5. StopsStay' BY <1>a, <1>b DEF StopsStay, StopHolds, StopSticks, Sending, RowTypes, Owners, Busy
<1>6. LockKnown' BY <1>a, <1>b DEF LockKnown, OtherTypes, Owners, Busy
<1>7. LockRestored' BY <1>a, <1>b DEF LockRestored, OtherTypes, LockKnown, Owners
<1>8. MovesKnown'
  <2> USE DEF MovesKnown, MovesKept, OpPlanned, Closed, Known, Unkept, RowTypes, OtherTypes
  <2>1. /\ UNCHANGED <<state, stop, op, progress, round>> /\ op = h /\ h # Nobody
        /\ step[h] = "send" /\ step'[h] = "settle"
        /\ job'[h].kind = job[h].kind /\ job'[h].who = job[h].who /\ job'[h].target = job[h].target
        /\ job'[h].answer = a
    BY <1>a, <1>b DEF rowVars, Answered, SameTask, Stepped, Handlers
  <2>2. moved = {} \/ Closed \/ Known BY <2>1
  <2>3. MovesKept'
    <3>1. CASE moved' = moved BY <2>1, <2>2, <3>1
    <3>2. CASE job[h].kind = "move" /\ a = "confirmed" /\ job[h].target = round /\ moved' = moved \cup job[h].who
      <4>1. Closed \/ (progress.round = round /\ moved \subseteq progress.moved) \/ (progress.round = round /\ moved = {})
        BY <2>1, <2>2, <3>2
      <4>2. Closed \/ (progress.round = round /\ moved' \subseteq progress.moved \cup job[h].who)
        BY <3>2, <4>1
      <4>3. /\ op' # Nobody /\ job'[op'].kind = "move" /\ step'[op'] = "settle" /\ job'[op'].answer = "confirmed"
            /\ job'[op'].who = job[h].who
        BY <2>1, <3>2
      <4> QED BY <2>1, <4>2, <4>3
    <3> QED BY <1>a, <3>1, <3>2
  <2>4. OpPlanned' BY <2>1
  <2>5. NotAgain' BY <2>1 DEF NotAgain
  <2> QED BY <2>3, <2>4, <2>5
<1> QED BY <1>1, <1>2, <1>3, <1>4, <1>5, <1>6, <1>7, <1>8 DEF EventInv

LEMMA CrashesKeep == ASSUME EventInv, Crashes PROVE EventInv'
<1> USE HandlersAssumption DEF EventInv, Crash, rowVars, NoJob, GameSame, gameVars, history, NewVersion, Stepped
<1>a. PICK h \in Handlers : Crash(h) BY DEF Crashes
<1>b. PICK r \in {"idle", "done"} : Stepped(h, r) BY <1>a, Stepping DEF Crash
<1>c. /\ job' \in [Handlers -> Jobs] /\ \A g \in Handlers : job'[g] = job[g] \/ (g = h /\ job'[g] = NoJob)
      /\ op = h => job' = job
  BY <1>a, NoJobs DEF Crash, JobTypes
<1>1. RowTypes' BY <1>a, <1>b, <1>c DEF RowTypes
<1>2. OtherTypes' BY <1>a, <1>b, <1>c DEF OtherTypes
<1>3. JobTypes' BY <1>a, <1>b, <1>c DEF JobTypes, MoveNames, OtherTypes, RowTypes
<1>4. Owners' BY <1>a, <1>b, <1>c DEF Owners, Busy, RowTypes
<1>5. StopsStay' BY <1>a, <1>b, <1>c DEF StopsStay, StopHolds, StopSticks, Sending, RowTypes, Owners, Busy
<1>6. LockKnown' BY <1>a, <1>b, <1>c DEF LockKnown, OtherTypes, Owners, Busy
<1>7. LockRestored' BY <1>a, <1>b, <1>c DEF LockRestored, OtherTypes, LockKnown, Owners
<1>8. MovesKnown' BY <1>a, <1>b, <1>c DEF MovesKnown, MovesKept, OpPlanned, NotAgain, Closed, Known, Unkept,
      RowTypes, OtherTypes, Owners, Busy
<1> QED BY <1>1, <1>2, <1>3, <1>4, <1>5, <1>6, <1>7, <1>8 DEF EventInv

LEMMA EditKeep == ASSUME EventInv, Edit PROVE EventInv'
<1> USE HandlersAssumption DEF EventInv, Edit, SameTask, rowVars
<1>a. /\ job' \in [Handlers -> Jobs]
      /\ \A g \in Handlers : SameTask(job'[g], job[g]) /\ job'[g].answer = job[g].answer
  BY JobForms DEF Edit
<1>1. RowTypes' BY <1>a DEF RowTypes
<1>2. OtherTypes' BY <1>a DEF OtherTypes
<1>3. JobTypes' BY <1>a DEF JobTypes, MoveNames, OtherTypes, RowTypes
<1>4. Owners' BY <1>a DEF Owners, Busy, RowTypes
<1>5. StopsStay' BY <1>a DEF StopsStay, StopHolds, StopSticks, Sending, RowTypes, Owners, Busy
<1>6. LockKnown' BY <1>a DEF LockKnown, OtherTypes, Owners, Busy
<1>7. LockRestored' BY <1>a DEF LockRestored, OtherTypes, LockKnown, Owners
<1>8. MovesKnown' BY <1>a DEF MovesKnown, MovesKept, OpPlanned, NotAgain, Closed, Known, Unkept, RowTypes,
      OtherTypes, Owners, Busy
<1> QED BY <1>1, <1>2, <1>3, <1>4, <1>5, <1>6, <1>7, <1>8 DEF EventInv

LEMMA NextRoundKeep == ASSUME EventInv, NextRound PROVE EventInv'
<1> USE HandlersAssumption DEF EventInv, NextRound, rowVars
<1>a. round' \in 0..MaxRound BY LimitsAssumption DEF NextRound, OtherTypes
<1>1. RowTypes' BY <1>a DEF RowTypes
<1>2. OtherTypes' BY <1>a DEF OtherTypes
<1>3. JobTypes' BY <1>a DEF JobTypes, MoveNames, OtherTypes, RowTypes
<1>4. Owners' BY <1>a DEF Owners, Busy, RowTypes
<1>5. StopsStay' BY <1>a DEF StopsStay, StopHolds, StopSticks, Sending, RowTypes, Owners, Busy
<1>6. LockKnown' BY <1>a DEF LockKnown, OtherTypes, Owners, Busy
<1>7. LockRestored' BY <1>a DEF LockRestored, OtherTypes, LockKnown, Owners
<1>8. MovesKnown' BY <1>a DEF MovesKnown, MovesKept, OpPlanned, NotAgain, Closed, Known, Unkept, RowTypes,
      OtherTypes, Owners, Busy
<1> QED BY <1>1, <1>2, <1>3, <1>4, <1>5, <1>6, <1>7, <1>8 DEF EventInv

-------------------------------------------------------------------------------
(* The theorems.                                                            *)

LEMMA EventInitially == Init => EventInv
<1> SUFFICES ASSUME Init PROVE EventInv OBVIOUS
<1> USE HandlersAssumption DEF Init
<1>1. NewProgress \in Progresses /\ NewProgress.moved = {} /\ NewProgress.round = 0
  BY LimitsAssumption DEF NewProgress, Progresses
<1>2. 0 \in 0..MaxRound BY LimitsAssumption
<1>3. \A h \in Handlers : step[h] = "idle" /\ job[h] = NoJob OBVIOUS
<1>4. RowTypes BY <1>1 DEF RowTypes, States, Stops
<1>5. OtherTypes BY <1>2 DEF OtherTypes, Steps
<1>6. JobTypes BY <1>3, NoJobs DEF JobTypes, MoveNames
<1>7. Owners /\ StopsStay BY <1>3 DEF Owners, Busy, StopsStay, StopHolds, StopSticks, Sending
<1>8. LockKnown /\ LockRestored BY <1>3 DEF LockKnown, LockRestored
<1>9. MovesKnown BY <1>3, NoJobs DEF MovesKnown, MovesKept, OpPlanned, NotAgain
<1> QED BY <1>4, <1>5, <1>6, <1>7, <1>8, <1>9 DEF EventInv

LEMMA EventPreserved == EventInv /\ [Next]_vars => EventInv'
<1>1. EventInv /\ Next => EventInv'
  BY StepForms, ObservesKeep, CompletesKeep, RecordsStopKeep, HaltsKeep, ClaimsKeep, ReadsKeep, ReviewsKeep,
     DropsKeep, SettlesKeep, SendsKeep, CrashesKeep, EditKeep, NextRoundKeep
  DEF AnyForm
<1>2. EventInv /\ UNCHANGED vars => EventInv'
  <2> SUFFICES ASSUME EventInv, UNCHANGED vars PROVE EventInv' OBVIOUS
  <2> USE DEF EventInv, vars, rowVars, gameVars, history
  <2>1. (RowTypes /\ OtherTypes /\ JobTypes)' BY DEF RowTypes, OtherTypes, JobTypes
  <2>2. (Owners /\ StopsStay /\ LockKnown /\ LockRestored)'
    BY DEF Owners, Busy, StopsStay, StopHolds, StopSticks, Sending, LockKnown, LockRestored
  <2>3. MovesKnown' BY DEF MovesKnown, MovesKept, OpPlanned, NotAgain, Closed, Known, Unkept
  <2> QED BY <2>1, <2>2, <2>3
<1> QED BY <1>1, <1>2

LEMMA EventInvariant == Spec => []EventInv
BY EventInitially, EventPreserved, PTL DEF Spec

\* The row, the operations, the game and what the processes are doing keep their types.
THEOREM EventTypeCorrect == Spec => []TypeOK
<1>1. EventInv => TypeOK
  BY DEF EventInv, RowTypes, OtherTypes, JobTypes, TypeOK, Steps, Jobs, AnswersOf
<1> QED BY <1>1, EventInvariant, PTL

\* However many processes, restorations and staff act, and wherever a process stops, at most one action of
\* the event is on its way to the game: whoever sends owns the operation the row points to.
THEOREM SenderAlone == Spec => []OneSender
<1>1. ASSUME EventInv PROVE OneSender
  <2>1. Sending \subseteq {op} BY <1>1 DEF EventInv, Owners, Busy, Sending
  <2>2. Sending = {} \/ Sending = {op} BY <2>1
  <2> QED BY <2>2, FS_EmptySet, FS_Singleton DEF OneSender
<1> QED BY <1>1, EventInvariant, PTL

\* A stop is never undone: neither a request that is sent after it, nor a late result, plans moves again.
THEOREM StopsForGood == Spec => []StopsStay
<1>1. EventInv => StopsStay BY DEF EventInv
<1> QED BY <1>1, EventInvariant, PTL

\* A completed event has put back the team lock that one of its actions switched off, whatever the order of
\* unconfirmed switches, stops, restores of unknown result and interrupted processes.
THEOREM LockPutBack == Spec => []LockRestored
<1>1. EventInv => LockRestored BY DEF EventInv
<1> QED BY <1>1, EventInvariant, PTL

\* No player is moved twice in a round: the operation that is sent names nobody whose move was confirmed.
THEOREM NobodyMovedTwice == Spec => []MovedOnce
<1>1. EventInv => MovedOnce
  BY DEF EventInv, Owners, Busy, MovesKnown, NotAgain, MovedOnce, Sending
<1> QED BY <1>1, EventInvariant, PTL

===============================================================================
