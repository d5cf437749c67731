----------------------------- MODULE RoundTracker -----------------------------
(***************************************************************************)
(* Which round of the game a reading belongs to: trackRound of             *)
(* src/common/round-tracker.ts and the shared, in-memory tracker of        *)
(* src/admin/game-rounds.ts, over a game whose rounds, map travel and       *)
(* scoreboard reset are known here and only read by the tracker.           *)
(* Time is in units of 30 seconds: CLOCK_JITTER_MS is one unit. A           *)
(* scoreboard is its leading score. What only the dashboard's durations     *)
(* read (the phase, firstSeenAt, playingSince, waitingSince, lastSignalAt,  *)
(* exact) is left out.                                                      *)
(***************************************************************************)
EXTENDS Integers

CONSTANTS Gap,          \* ROUND_GAP_MS, in units
          MergeWindow,  \* ROUND_MERGE_MS, in units
          Drop,         \* SCORE_DROP
          FullScore,    \* the score that ends a match
          LastTime,     \* bound: the last moment
          Rounds,       \* bound: the number of rounds
          Places        \* the [reports, sameMaps] explored

ASSUME TrackerAssumption ==
  /\ {Gap, MergeWindow, Drop, FullScore, LastTime, Rounds} \subseteq Nat
  /\ Drop > 0 /\ FullScore > Drop + LastTime + 1 \* a match outlasts every gap explored

None == -1
NoTrack == [known |-> FALSE]
NoVote == [known |-> FALSE, open |-> FALSE]
Never == [at |-> None]

VARIABLES
  clockNow,   \* the time
  game,       \* [round, place, board, top, from, travelled, cleared]: the game
  reports,    \* which of the clock and the rotation entry the game reports
  sameMaps,   \* whether both rotation entries are the same map
  track,      \* GameRounds: the track in memory, or NoTrack
  taken,      \* GameRounds: the last reading it took
  vote,       \* the last ballot: its stored round and highest score, and its real round
  blind,      \* history: since the ballot opened, a reading gap or a restart
  cutShort,   \* history: how ballots ended as if their round had, in that very round
  ranOver,    \* history: a ballot went on in a later round
  renamed     \* history: a round seen from its start took a second name

trackWorld == <<clockNow, game, reports, sameMaps>>
trackMemory == <<track, taken>>
trackVars == <<trackWorld, trackMemory, vote, blind, cutShort, ranOver, renamed>>

Over == game.board = FullScore \/ game.travelled \/ game.cleared

TrackInit ==
  /\ clockNow = 0 /\ track = NoTrack /\ taken = Never /\ vote = NoVote
  /\ \E points \in {0, FullScore - 1} :
       game = [round |-> 1, place |-> 0, board |-> points, top |-> points, from |-> -points,
               travelled |-> FALSE, cleared |-> FALSE]
  /\ \E p \in Places : reports = p.reports /\ sameMaps = p.sameMaps
  /\ blind = FALSE /\ cutShort = {} /\ ranOver = FALSE /\ renamed = FALSE

-----------------------------------------------------------------------------
(* The game: a match runs to its full score, or staff change the map; then it *)
(* travels and clears its board, in either order after a full match.          *)

Later(points) ==
  /\ clockNow < LastTime /\ clockNow' = clockNow + 1
  /\ game' = [game EXCEPT !.board = points, !.top = IF points > @ THEN points ELSE @]
  /\ UNCHANGED <<reports, sameMaps, trackMemory, vote, blind, cutShort, ranOver, renamed>>

\* Time passes, with or without a point.
TimePasses == \E points \in {game.board, game.board + 1} :
                (points # game.board => ~Over) /\ Later(points)

\* A correction of the score, too small to look like a new match.
Correction == game.board > 1 /\ game.board = game.top /\ ~Over /\ Later(game.board - 1)

\* The two halves of a change of match come in either order; the first begins the round.
Transition(half, other) ==
  /\ Over \/ (half = "travelled" /\ clockNow - game.from > Gap + 1) \* staff, past the jitter
  /\ ~game[half] /\ (game[other] \/ game.round < Rounds)
  /\ game' = [game EXCEPT
       !.travelled = half = "travelled" /\ ~game[other],
       !.cleared = half = "cleared" /\ ~game[other],
       !.round = IF game[other] THEN @ ELSE @ + 1,
       !.place = IF half = "travelled" THEN 1 - @ ELSE @,
       !.from = IF half = "travelled" THEN clockNow ELSE @,
       !.board = IF half = "cleared" THEN 0 ELSE @,
       !.top = IF half = "cleared" THEN 0 ELSE @]
  /\ UNCHANGED <<clockNow, reports, sameMaps, trackMemory, vote, blind, cutShort, ranOver, renamed>>
Travel == Transition("travelled", "cleared")
ClearBoard == Transition("cleared", "travelled")

-----------------------------------------------------------------------------
(* trackRound *)

MapOf(place) == IF sameMaps THEN 0 ELSE place

\* A status read: the scores may be unreadable.
Observation(valid) ==
  [at |-> clockNow, map |-> MapOf(game.place),
   index |-> IF "index" \in reports THEN game.place ELSE None,
   clock |-> IF "clock" \in reports THEN clockNow - game.from ELSE None,
   lead |-> IF valid THEN game.board ELSE 0, valid |-> valid]

Within(a, b, limit) == a - b <= limit /\ b - a <= limit
Starts(o) == o.at - o.clock
Higher(a, b) == IF a > b THEN a ELSE b
Or(a, b) == IF a # None THEN a ELSE b

\* A name dates the start to the millisecond: no two readings give the same one.
NewRound(o, source) ==
  [id |-> <<source, o, vote.open>>, map |-> o.map, index |-> o.index,
   start |-> IF source = "clock" THEN Starts(o) ELSE o.at, source |-> source,
   \* History: the round it was named in, and whether it was named on readings that could tell.
   really |-> game.round, sure |-> o.valid]
Fresh(o, otherwise) == NewRound(o, IF o.clock = None THEN otherwise ELSE "clock")
\* A known round, dated by the clock when there is one.
Dated(round, o) ==
  LET placed == [round EXCEPT !.index = Or(o.index, @)] IN
  IF o.clock = None THEN placed ELSE [placed EXCEPT !.start = Starts(o), !.source = "clock"]

SamePlace(round, o) ==
  /\ round.map = o.map
  /\ (round.index = None \/ o.index = None \/ round.index = o.index)
SameStart(round, o) ==
  \/ o.clock = None
  \/ IF round.source = "clock" THEN Within(Starts(o), round.start, 1)
     ELSE Starts(o) <= round.start + 1

\* Mutant: no score correction is allowed for.
ContinuesExactly(known, o) ==
  /\ SamePlace(known.round, o) /\ SameStart(known.round, o)
  /\ (~o.valid \/ o.lead >= known.highest)

\* After a gap the round is the known one when place, clock and score agree.
Continues(known, o) ==
  /\ SamePlace(known.round, o) /\ SameStart(known.round, o)
  /\ (~o.valid \/ o.lead >= known.highest - Drop)

LatestRound(o) == [at |-> o.at, map |-> o.map, index |-> o.index, lead |-> o.lead,
            clock |-> o.clock, named |-> o.valid]

\* A gap forgets that the round was first seen already running.
Passed(known) == [known.round EXCEPT !.sure = @ /\ ~known.unseeded]

AfterGap(prev, o, known) ==
  LET decided == known.known /\ (o.valid \/ ~prev.known)
      kept == decided /\ Continues(known, o)
      stale == IF /\ kept /\ prev.known /\ o.valid
                  /\ prev.stale = o.lead /\ prev.stale # None /\ prev.round.id = known.round.id
               THEN prev.stale ELSE None
      held == known.known /\ ~decided
      new == ~kept /\ ~held
      high == IF held \/ (kept /\ stale # None) THEN known.highest
              ELSE IF kept THEN Higher(known.highest, o.lead) ELSE o.lead
  IN [known |-> TRUE,
      round |-> IF kept THEN Dated(Passed(known), o)
                ELSE IF held THEN [Passed(known) EXCEPT !.sure = @ /\ prev.stale = None]
                ELSE [Fresh(o, "baseline") EXCEPT !.sure = @ \/ known.known],
      highest |-> high,
      ended |-> o.valid /\ stale = None /\ o.lead >= FullScore,
      last |-> IF o.valid THEN LatestRound(o) ELSE IF prev.known THEN prev.last
               ELSE [LatestRound(o) EXCEPT !.lead = high],
      unseeded |-> new, stale |-> stale]

\* What shows that another round has begun.
Signal(prev, o) ==
  LET before == prev.last IN
  \/ before.map # o.map
  \/ before.index # None /\ o.index # None /\ before.index # o.index
  \/ o.clock # None /\ before.clock # None /\ o.clock < before.clock - 1
  \/ before.named /\ before.lead > 0 /\ o.lead = 0
  \/ before.named /\ o.lead <= prev.highest - Drop /\ o.lead <= before.lead

\* Mutant: merged whatever was scored since.
MergesScored(prev, o) ==
  /\ prev.round.source # "baseline" /\ o.at - prev.round.start <= MergeWindow

\* Signals close together are one round while nobody has scored in it.
Merges(prev, o) ==
  /\ prev.round.source # "baseline" /\ prev.highest = 0
  /\ o.at - prev.round.start <= MergeWindow

Merged(prev, o) ==
  LET moved == [prev.round EXCEPT !.map = o.map, !.index = Or(o.index, @)] IN
  IF o.clock # None THEN Dated(moved, o)
  ELSE IF moved.source = "observed" THEN [moved EXCEPT !.start = o.at] ELSE moved

\* Mutant: the scores on screen are taken for this round's.
NotShown(prev, o) == None

\* The final scores of the last match, still on screen.
StillShown(prev, o) ==
  IF Signal(prev, o)
  THEN IF prev.last.named /\ o.lead = prev.last.lead /\ o.lead > 0 THEN o.lead
       ELSE IF prev.stale # None /\ prev.last.named /\ o.lead = prev.stale THEN prev.stale ELSE None
  ELSE IF prev.stale # None /\ prev.last.named /\ o.lead = prev.stale THEN prev.stale ELSE None

\* History: the scores before were read, and those still on screen are those.
Telling(prev, o) == prev.last.named /\ (game.travelled => o.lead = prev.last.lead)

InSequence(prev, o) ==
  LET signal == Signal(prev, o)
      stale == StillShown(prev, o)
      boundary == signal /\ ~Merges(prev, o)
      points == IF stale = None THEN o.lead ELSE 0
  IN [known |-> TRUE,
      round |-> IF boundary THEN [Fresh(o, "observed") EXCEPT !.sure = Telling(prev, o)]
                ELSE IF signal THEN Merged(prev, o)
                ELSE IF o.clock # None /\ prev.round.source # "clock" THEN Dated(prev.round, o)
                ELSE [prev.round EXCEPT !.index = Or(@, o.index)],
      highest |-> IF signal THEN points ELSE Higher(prev.highest, points),
      ended |-> (~signal /\ prev.ended) \/ (stale = None /\ o.lead >= FullScore),
      last |-> LatestRound(o), unseeded |-> ~boundary /\ prev.unseeded, stale |-> stale]

Missed(prev, o) == ~prev.known \/ o.at < prev.last.at \/ o.at - prev.last.at > Gap

\* The round known from stored work, else the one in memory.
KnownRound(prev, seed) ==
  IF seed.known THEN [known |-> TRUE, round |-> seed.round, highest |-> seed.highest, unseeded |-> FALSE]
  ELSE prev

TrackRound(prev, o, seed) ==
  IF Missed(prev, o) THEN AfterGap(prev, o, KnownRound(prev, seed))
  ELSE IF o.valid THEN InSequence(prev, o) ELSE prev

-----------------------------------------------------------------------------
(* GameRounds *)

\* A round first seen already running is the stored one.
Adoptable(t, seed) ==
  /\ t.known /\ seed.known /\ t.unseeded /\ seed.round.id # t.round.id
  /\ seed.round.map = t.round.map
  /\ (seed.round.index = None \/ t.round.index = None \/ seed.round.index = t.round.index)
  /\ t.highest >= seed.highest - Drop
  /\ IF t.round.source = "clock"
     THEN IF seed.round.source = "clock" THEN Within(seed.round.start, t.round.start, 1)
          ELSE seed.round.start >= t.round.start - 1
     ELSE seed.round.start <= t.round.start + 1

Adopt(t, seed) ==
  [t EXCEPT !.unseeded = FALSE, !.highest = Higher(t.highest, seed.highest),
     !.round = [seed.round EXCEPT !.map = t.round.map, !.index = Or(t.round.index, @),
       !.start = IF t.round.source = "clock" THEN t.round.start ELSE @,
       !.source = IF t.round.source = "clock" THEN "clock" ELSE @]]

\* observe: a reading that was taken before is not decided on again.
Observed(o, seed) ==
  LET prev == IF Adoptable(track, seed) THEN Adopt(track, seed) ELSE track IN
  IF prev.known /\ taken = o THEN prev ELSE TrackRound(prev, o, seed)

Underway(t) == t.known /\ t.highest > 0

\* The name changes within a round that was seen to begin, close to that beginning.
Renames(o) ==
  /\ track.known /\ ~Missed(track, o) /\ ~track.unseeded /\ track.round.sure
  /\ track.round.source = "observed" /\ o.at - track.round.start <= MergeWindow
  /\ track'.round.id # track.round.id /\ track.round.really = game.round

Take(o, seed) ==
  /\ track' = Observed(o, seed) /\ taken' = o
  /\ renamed' = (renamed \/ Renames(o))
  /\ UNCHANGED trackWorld
Unwatched == blind \/ ~track.known \/ clockNow - track.last.at > Gap

\* A reading that opens nothing: of the events workers, which know no ballot, or of a
\* pass of the ballots worker, which knows the latest one.
Look ==
  /\ \E valid \in BOOLEAN, seed \in IF vote.open THEN {NoVote} ELSE {NoVote, vote} :
       Take(Observation(valid), seed)
  /\ blind' = Unwatched
  /\ UNCHANGED <<vote, cutShort, ranOver>>

\* History: the round a ballot belongs to. One opened on the old match's last scores by a
\* process that did not see that match belongs to none.
Really == IF game.travelled \/ game.cleared THEN 0 ELSE game.round

\* An automatic ballot opens on a reading of a round that is underway (bound: the first one).
OpenVote ==
  /\ ~vote.known
  /\ LET o == Observation(TRUE) IN
       /\ Take(o, vote) /\ Underway(track') /\ ~track'.ended
       /\ vote' = [known |-> TRUE, open |-> TRUE, round |-> track'.round,
                   highest |-> o.lead, really |-> Really]
  /\ blind' = FALSE
  /\ UNCHANGED <<cutShort, ranOver>>

\* A pass over the open ballot: it ends with its round, or takes the score.
WatchVote ==
  /\ vote.open
  /\ \E valid \in BOOLEAN :
       LET o == Observation(valid)
           t == Observed(o, vote)
           same == t.round.id = vote.round.id /\ o.map = vote.round.map IN
       /\ Take(o, vote) /\ blind' = Unwatched
       /\ vote' = IF ~same \/ (valid /\ (o.lead >= FullScore \/ o.lead < vote.highest)) THEN [vote EXCEPT !.open = FALSE]
                  ELSE [vote EXCEPT !.highest = IF valid THEN o.lead ELSE @]
       /\ cutShort' = IF same \/ {game.round} # {vote.really, vote.round.really} THEN cutShort
                       ELSE cutShort \cup {IF t.round.sure /\ vote.round.sure THEN "sure" ELSE "unsure"}
       /\ ranOver' = (ranOver \/ (vote'.open /\ valid /\ vote.really \notin {0, game.round}
                                  /\ (~blind' \/ "clock" \in reports)))

\* The process restarts; the stored ballot stays (bound: only while one is open).
ForgetTrack ==
  /\ track.known /\ vote.open /\ track' = NoTrack /\ taken' = Never /\ blind' = TRUE
  /\ UNCHANGED <<trackWorld, vote, cutShort, ranOver, renamed>>

TrackNext == TimePasses \/ Correction \/ Travel \/ ClearBoard
             \/ Look \/ OpenVote \/ WatchVote \/ ForgetTrack
TrackSpec == TrackInit /\ [][TrackNext]_trackVars

-----------------------------------------------------------------------------
(* Properties *)

TrackTypeOK ==
  /\ clockNow \in 0 .. LastTime /\ game.round \in 1 .. Rounds /\ game.board \in 0 .. FullScore
  /\ blind \in BOOLEAN
  /\ cutShort \subseteq {"sure", "unsure"} /\ ranOver \in BOOLEAN /\ renamed \in BOOLEAN
  /\ track.known => /\ track.round.source \in {"clock", "observed", "baseline"}
                    /\ track.highest \in 0 .. FullScore

\* The comment in game-rounds.ts says of a restart: "The other worker's matching stored round (an
\* open ballot or a running event) is adopted, so both workers keep the same round identity".
\* Then no ballot ends in the middle of its round.
StoredRoundAdopted == cutShort = {}

\* No ballot ends as if its round were over while that round goes on: not after a restart, a
\* reading gap, a corrected score or a reading by a worker that knows no ballot. It may where the
\* naming readings could not tell: without scores, or two gaps before the stored round is offered.
RoundNotSplit == "sure" \notin cutShort

\* A pass never keeps a ballot in a later round than its own while readings come without a
\* gap, nor whatever gaps and restarts there were when the game reports its clock.
RoundsNotMerged == ~ranOver

\* The two halves of a change of match, read at different moments and in either order, name one
\* round: while readings come without a gap and the game reports no clock, a round that was seen
\* to begin keeps its name, also while the old match's final scores are still shown.
RoundNamedOnce == ~renamed

\* The comment on RoundTrack.stale: the last match's scores, still on screen after the boundary,
\* "count for neither `highest` nor `ended`".
FinalScoresIgnored ==
  (track.known /\ track.round.source = "observed" /\ track.round.really = game.round /\ game.travelled)
    => track.highest = 0 /\ ~track.ended

\* One name for one round, for every ballot and every reading.
OneNamePerRound == RoundNotSplit /\ RoundsNotMerged /\ RoundNamedOnce
=============================================================================
