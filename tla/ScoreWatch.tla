------------------------------ MODULE ScoreWatch ------------------------------
(***************************************************************************)
(* One automatic ballot watching the score of its match: the worker        *)
(* records each reading, closes the ballot before the match can end, and   *)
(* sends each score reminder once (observeAutomatic, the second half of    *)
(* map-votes.service.ts, with the transactions of map-votes.store.ts).     *)
(* The first half, the checks that the round and the rotation are still    *)
(* those of the ballot, is in MapVotes.                                    *)
(* Scores are in tenths of a match: the match ends at Target.              *)
(***************************************************************************)
EXTENDS Integers, FiniteSets

CONSTANTS Watchers,           \* workers; two for a moment while a release replaces one
          Target,             \* the score that ends the match
          CloseAt, EarlyAt,   \* the close score, and the first score of its early window
          MidpointAt, FinalAt,\* the scores of the two reminders
          OpeningScores,      \* bound: the scores a ballot may open at
          LargestStep         \* bound: what one team scores between two readings

ASSUME ScoresAssumption ==
  /\ {Target, CloseAt, EarlyAt, MidpointAt, FinalAt, LargestStep} \subseteq Nat
  /\ 0 < MidpointAt /\ MidpointAt < FinalAt /\ FinalAt < CloseAt
  /\ EarlyAt <= CloseAt /\ CloseAt < Target /\ OpeningScores \subseteq 0 .. EarlyAt

Stages == {"midpoint", "final"}
ReminderScore(s) == IF s = "midpoint" THEN MidpointAt ELSE FinalAt
NoSample == -1

VARIABLES
  lead,      \* the game: the leading score
  even,      \* history: every step under the open ballot was watched and no larger than allowed for
  watched,   \* history: the last score a pass went on from without closing
  ballot,    \* "open", "closing" (claimed for its result) or "cancelled"
  peak,      \* stored: highestScore
  maxStep,   \* stored: the largest step between two samples
  reminder,  \* stored: [Stages -> state of its record]
  opened,    \* stored: openedAtScore
  switches,  \* stored: the reminders switched on in the saved policy now
  wanted,    \* stored: the reminders switched on when the ballot opened
  channels,  \* stored: where each reminder goes
  sample,    \* [Watchers -> the last score in memory]
  at,        \* [Watchers -> step of observeAutomatic]
  got,       \* [Watchers -> the score this pass read]
  allowed,   \* [Watchers -> the saved switches this pass read]
  stage,     \* [Watchers -> the reminder being sent]
  posted,    \* history: [Stages -> how often it appeared in Discord]
  said       \* history: [Stages -> how often it appeared in game]

watchGame == <<lead, even, watched>>
watchStored == <<ballot, peak, maxStep, reminder>>
watchSetup == <<opened, wanted, channels>>
watchMind == <<sample, got, allowed, stage>>
watchSent == <<posted, said>>
watchVars == <<watchGame, watchStored, watchSetup, switches, at, watchMind, watchSent>>

WatchInit ==
  /\ lead \in OpeningScores /\ opened = lead /\ peak = lead /\ watched = NoSample /\ even = TRUE
  /\ ballot = "open" /\ maxStep = 0 /\ reminder = [s \in Stages |-> "none"]
  /\ wanted \in SUBSET Stages /\ switches = wanted
  /\ channels \in {{"discord"}, {"game"}, {"discord", "game"}}
  /\ sample = [w \in Watchers |-> NoSample] /\ at = [w \in Watchers |-> "idle"]
  /\ got = [w \in Watchers |-> 0] /\ allowed = [w \in Watchers |-> {}]
  /\ stage = [w \in Watchers |-> "midpoint"]
  /\ posted = [s \in Stages |-> 0] /\ said = [s \in Stages |-> 0]

Goes(w, step) == at' = [at EXCEPT ![w] = step] /\ UNCHANGED <<got, allowed, stage>>
\* The pass ends; what it read is gone, the last sample stays in memory.
Rests(w) ==
  /\ at' = [at EXCEPT ![w] = "idle"] /\ got' = [got EXCEPT ![w] = 0]
  /\ allowed' = [allowed EXCEPT ![w] = {}] /\ stage' = [stage EXCEPT ![w] = "midpoint"]
AtWatch(w, step) == at[w] = step

-----------------------------------------------------------------------------
(* The match and the staff *)

\* A step the ballot allows for: within the early window, one it has seen before or one
\* that the close score leaves room for.
Foreseen(d) ==
  /\ d <= Target - EarlyAt
  /\ (lead < EarlyAt \/ d <= maxStep \/ d <= Target - CloseAt)

\* A team scores. The ballot has kept up when a pass went on from the score before.
Scores ==
  \E d \in 1 .. LargestStep :
    /\ lead < Target
    /\ lead' = IF lead + d > Target THEN Target ELSE lead + d
    /\ even' = (even /\ (ballot = "open" => watched = lead /\ Foreseen(d)))
    /\ UNCHANGED <<watched, watchStored, watchSetup, switches, at, watchMind, watchSent>>

\* Staff save the policy with a reminder on or off; the open ballot stays.
SaveReminders ==
  /\ \E on \in SUBSET Stages : on # switches /\ switches' = on
  /\ UNCHANGED <<watchGame, watchStored, watchSetup, at, watchMind, watchSent>>

-----------------------------------------------------------------------------
(* The pass *)

\* A pass reads the policy and a fresh score of the match its checks found unchanged.
ReadScore(w) ==
  /\ AtWatch(w, "idle") /\ ballot = "open"
  /\ at' = [at EXCEPT ![w] = "read"] /\ got' = [got EXCEPT ![w] = lead]
  /\ allowed' = [allowed EXCEPT ![w] = switches]
  /\ UNCHANGED <<watchGame, watchStored, watchSetup, switches, sample, stage, watchSent>>

\* The match is over, or a lower score shows that another one runs.
CancelEnded(w) ==
  /\ AtWatch(w, "read") /\ Rests(w)
  /\ (got[w] >= Target \/ got[w] < peak)
  /\ ballot' = IF ballot = "open" THEN "cancelled" ELSE ballot
  /\ UNCHANGED <<watchGame, peak, maxStep, reminder, watchSetup, switches, sample, watchSent>>

\* The step since the last sample in memory, when that sample is recent enough.
StepsSince(w) == {0} \cup (IF sample[w] # NoSample /\ got[w] > sample[w]
                           THEN {got[w] - sample[w]} ELSE {})

\* Records the score. A ballot that closed, or saw a higher score, ends the pass.
RecordScore(w) ==
  /\ AtWatch(w, "read") /\ got[w] < Target
  /\ sample' = [sample EXCEPT ![w] = got[w]]
  /\ IF ballot = "open" /\ got[w] >= peak
     THEN /\ Goes(w, "recorded")
          /\ \E d \in StepsSince(w) :
               maxStep' = IF got[w] > peak /\ d > maxStep THEN d ELSE maxStep
          /\ peak' = got[w]
     ELSE Rests(w) /\ UNCHANGED <<maxStep, peak>>
  /\ UNCHANGED <<watchGame, ballot, reminder, watchSetup, switches, watchSent>>

\* At the close score, or one observed step early when the next could end the match.
CloseReachedLate(progress, largest) == \* a plausible bug
  \/ progress >= CloseAt
  \/ (progress >= EarlyAt /\ progress + largest > Target)
CloseReached(progress, largest) ==
  \/ progress >= CloseAt
  \/ (progress >= EarlyAt /\ progress + largest >= Target)

\* One of the claims wins; the others find the ballot no longer open.
ClaimForClose(w) ==
  /\ AtWatch(w, "recorded") /\ CloseReached(got[w], maxStep)
  /\ Rests(w)
  /\ ballot' = IF ballot = "open" THEN "closing" ELSE ballot
  /\ UNCHANGED <<watchGame, peak, maxStep, reminder, watchSetup, switches, sample, watchSent>>

\* The reminder this score has reached: the later of those switched on then and now.
Reached(w) == {s \in wanted \cap allowed[w] : got[w] >= ReminderScore(s)}
Due(w) == CHOOSE s \in Reached(w) : \A o \in Reached(w) : ReminderScore(o) <= ReminderScore(s)

\* Not the moment to close. Without a reminder to send, or with one whose score had
\* passed when the ballot opened, the pass ends.
GoOn(w) ==
  /\ AtWatch(w, "recorded") /\ ~CloseReached(got[w], maxStep)
  /\ watched' = got[w]
  /\ IF Reached(w) # {} /\ opened < ReminderScore(Due(w))
     THEN /\ at' = [at EXCEPT ![w] = "due"] /\ stage' = [stage EXCEPT ![w] = Due(w)]
          /\ UNCHANGED <<got, allowed>>
     ELSE Rests(w)
  /\ UNCHANGED <<lead, even, watchStored, watchSetup, switches, sample, watchSent>>

\* The staff account the reminder is sent for is no longer an administrator.
NotStaff(w) ==
  /\ AtWatch(w, "due") /\ Rests(w)
  /\ UNCHANGED <<watchGame, watchStored, watchSetup, switches, sample, watchSent>>

\* The reminder is recorded before it is sent, once, while still switched on.
MayClaimAgain(s) == ballot = "open" /\ s \in switches \* a plausible bug
MayClaim(s) == ballot = "open" /\ reminder[s] = "none" /\ s \in switches
ClaimReminder(w) ==
  /\ AtWatch(w, "due")
  /\ IF MayClaim(stage[w])
     THEN /\ reminder' = [reminder EXCEPT ![stage[w]] = "started"]
          /\ Goes(w, "claimed")
     ELSE Rests(w) /\ UNCHANGED reminder
  /\ UNCHANGED <<watchGame, ballot, peak, maxStep, watchSetup, switches, sample, watchSent>>

\* Asked again before each of the two messages.
StillOn(w) == stage[w] \in switches /\ ballot = "open"
Sends(w, channel) == channel \in channels

\* The record of a reminder takes its result.
FinishReminder(w, result) ==
  /\ reminder' = [reminder EXCEPT ![stage[w]] = result]
  /\ Rests(w)

\* Counting, checking the channel or posting fails, or voting stopped: never repeated.
ReminderFails(w) ==
  /\ at[w] \in {"claimed", "inDiscord"} /\ FinishReminder(w, "unknown")
  /\ UNCHANGED <<watchGame, ballot, peak, maxStep, watchSetup, switches, sample, watchSent>>

\* The post in Discord; its answer may be lost.
PostReminder(w) ==
  /\ AtWatch(w, "claimed") /\ StillOn(w) /\ Sends(w, "discord")
  /\ posted' = [posted EXCEPT ![stage[w]] = @ + 1]
  /\ \/ Goes(w, "inDiscord") /\ UNCHANGED reminder
     \/ FinishReminder(w, "unknown")
  /\ UNCHANGED <<watchGame, ballot, peak, maxStep, watchSetup, switches, sample, said>>

\* Only Discord is asked for.
FinishPosted(w) ==
  /\ AtWatch(w, "inDiscord") /\ ~Sends(w, "game") /\ FinishReminder(w, "applied")
  /\ UNCHANGED <<watchGame, ballot, peak, maxStep, watchSetup, switches, sample, watchSent>>

MaySay(w) == /\ Sends(w, "game") /\ StillOn(w)
             /\ at[w] = IF Sends(w, "discord") THEN "inDiscord" ELSE "claimed"

\* The broadcast through the receipts of staff actions: accepted, or its answer lost.
SayReminder(w) ==
  /\ MaySay(w) /\ said' = [said EXCEPT ![stage[w]] = @ + 1]
  /\ \E result \in {"applied", "unknown"} : FinishReminder(w, result)
  /\ UNCHANGED <<watchGame, ballot, peak, maxStep, watchSetup, switches, sample, posted>>

\* The game refuses it, or the action is refused before it is sent.
SayRefused(w) ==
  /\ MaySay(w) /\ FinishReminder(w, "failed")
  /\ UNCHANGED <<watchGame, ballot, peak, maxStep, watchSetup, switches, sample, watchSent>>

\* The process dies; what it held in memory is gone, its records stay.
WatchCrash(w) ==
  /\ ~AtWatch(w, "idle") \/ sample[w] # NoSample
  /\ Rests(w) /\ sample' = [sample EXCEPT ![w] = NoSample]
  /\ UNCHANGED <<watchGame, watchStored, watchSetup, switches, watchSent>>

WatchStep(w) ==
  \/ ReadScore(w) \/ CancelEnded(w) \/ RecordScore(w) \/ ClaimForClose(w) \/ GoOn(w)
  \/ NotStaff(w) \/ ClaimReminder(w) \/ ReminderFails(w) \/ PostReminder(w) \/ FinishPosted(w)
  \/ SayReminder(w) \/ SayRefused(w) \/ WatchCrash(w)
WatchNext == Scores \/ SaveReminders \/ \E w \in Watchers : WatchStep(w)
WatchSpec == WatchInit /\ [][WatchNext]_watchVars

-----------------------------------------------------------------------------
(* Properties *)

ReminderStates == {"none", "started", "applied", "failed", "unknown"}
WatchTypeOK ==
  /\ lead \in 0 .. Target /\ even \in BOOLEAN /\ watched \in {NoSample} \cup 0 .. Target
  /\ ballot \in {"open", "closing", "cancelled"} /\ peak \in 0 .. Target /\ maxStep \in 0 .. Target
  /\ reminder \in [Stages -> ReminderStates] /\ opened \in 0 .. Target
  /\ switches \subseteq Stages /\ wanted \subseteq Stages /\ channels \subseteq {"discord", "game"}
  /\ sample \in [Watchers -> {NoSample} \cup 0 .. Target]
  /\ at \in [Watchers -> {"idle", "read", "recorded", "due", "claimed", "inDiscord"}]
  /\ got \in [Watchers -> 0 .. Target] /\ allowed \in [Watchers -> SUBSET Stages]
  /\ stage \in [Watchers -> Stages] /\ posted \in [Stages -> Nat] /\ said \in [Stages -> Nat]

\* A reminder appears at most once in each place, whatever crashes or overlaps, and its
\* record never says it was delivered where it was not.
RemindedOnce ==
  \A s \in Stages :
    /\ posted[s] <= 1 /\ said[s] <= 1
    /\ reminder[s] = "applied" =>
         /\ "discord" \in channels => posted[s] = 1
         /\ "game" \in channels => said[s] = 1
    /\ reminder[s] \in {"none", "failed"} => said[s] = 0

\* A ballot whose passes kept up with a match of foreseeable steps is never still open
\* when the match ends: it closes for its result first.
ClosesInTime == even /\ lead >= Target => ballot # "open"

\* What is announced and decided from scores: both reminders at most once, and the close in time.
ScoresHeeded == RemindedOnce /\ ClosesInTime
=============================================================================
