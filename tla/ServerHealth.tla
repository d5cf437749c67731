------------------------------ MODULE ServerHealth ------------------------------
(***************************************************************************)
(* What staff alerts infer of one server from its reads: it is down or back,*)
(* it restarted, its build changed, it stays low on players                 *)
(* (health-state.ts, seeding-state.ts, the worker of staff-alerts.monitor.ts).*)
(* Every read may show anything; time passes between reads.                  *)
(***************************************************************************)
EXTENDS Integers, Sequences, FiniteSets

CONSTANTS ReadGap,      \* ROUND_GAP_MS
          HoldFor,      \* RESTART_HOLD_MS
          DownAfter,    \* downMinutes
          RestartLimit, \* RESTART_ALERT_MS
          LowBelow, LowFor, LowWatch, \* seeding: below, minutes, afterRestartHours
          LowEnd,       \* SEEDING_END_MS
          PrimeFrom, PrimeTo, \* the prime window
          MaxPauses,    \* MAX_PAUSES
          Counts,       \* bound: player counts a read shows
          Builds,       \* bound: builds a read shows
          Pauses,       \* bound: times between two reads
          LastRead      \* bound: time

ASSUME HealthAssumption ==
  /\ {ReadGap, HoldFor, DownAfter, RestartLimit, LowBelow, LowFor, LowWatch, LowEnd, PrimeFrom, PrimeTo,
      MaxPauses, LastRead} \subseteq Nat
  /\ Counts \subseteq Nat /\ Pauses \subseteq Nat \ {0}

VARIABLES
  readAt,   \* the time of the last read
  seen,     \* lastGood: [at, players, build], or NotSeenYet
  outage,   \* [since, failures (2 for more), down, successes, first], or NoOutage
  held,     \* pending: [at, players], or NotHeld
  boundary, \* watch: [at], or NoBoundary
  limitAt,  \* lastRestartAlertAt, or NotYet
  episode,  \* the low episode: [start, pauses, pausedSince, notLow, restart, prime], or NoEpisode
  downs,    \* history: game-down posts not yet followed by their game-back
  failedLast, \* history: the last read failed
  blind,    \* history: the times after which the server could not be read
  fullAt,   \* history: the last good read with more than one player
  called,   \* history: seeding posts of this episode
  wrong     \* history: posts that should not have been made

healthState == <<seen, outage, held, boundary, limitAt, downs, fullAt>>
healthVars == <<readAt, healthState, episode, failedLast, blind, called, wrong>>

NotYet == 0 - 1
NotSeenYet == [at |-> NotYet]
NoOutage == [since |-> NotYet]
NotHeld == [at |-> NotYet]
NoBoundary == [at |-> NotYet]
NoEpisode == [start |-> NotYet]

HealthInit ==
  /\ readAt = 0 /\ seen = NotSeenYet /\ outage = NoOutage /\ held = NotHeld /\ boundary = NoBoundary
  /\ limitAt = NotYet /\ episode = NoEpisode
  /\ downs = 0 /\ failedLast = FALSE /\ blind = {} /\ fullAt = NotYet /\ called = {} /\ wrong = {}

Later(a, b) == IF a > b THEN a ELSE b
Sooner(a, b) == IF a < b THEN a ELSE b
When(condition, name) == IF condition THEN {name} ELSE {}

-----------------------------------------------------------------------------
(* Health *)

\* A failed read: the outage starts or goes on, and is posted once when it is long enough.
Failed(now) ==
  LET before == IF outage = NoOutage
                THEN [since |-> now, failures |-> 0, down |-> FALSE, successes |-> 0, first |-> NotYet]
                ELSE outage
      failures == Sooner(2, before.failures + 1)
      posts == ~before.down /\ failures >= 2 /\ now - before.since >= DownAfter IN
  /\ outage' = [before EXCEPT !.failures = failures, !.down = before.down \/ posts,
                              !.successes = 0, !.first = NotYet]
  /\ downs' = IF posts THEN downs + 1 ELSE downs
  /\ UNCHANGED <<seen, held, boundary, limitAt, fullAt>>

\* One failed read with normal gaps around it may be a hitch while the map changes.
Hitch(now) == /\ outage # NoOutage /\ outage.failures < 2
              /\ outage.since - seen.at <= ReadGap /\ now - outage.since <= ReadGap

\* Mutant: players who came back do not clear a held restart.
StillHeld(read) == FALSE
Refilled(read) == read.players > 1

\* What a good read makes of the restart question: "reported" at once, "held", "confirmed", or nothing.
AfterLoss == outage # NoOutage /\ outage.successes = 0
Compared(now) == seen # NotSeenYet /\ (AfterLoss \/ (outage = NoOutage /\ now - seen.at > ReadGap))
Emptied(read) == seen.players >= 5 /\ read.players <= 1
Rebuilt(read) == seen.build # 0 /\ read.build # 0 /\ seen.build # read.build
Reported(now, read) ==
  /\ Compared(now)
  /\ IF Hitch(now) THEN Rebuilt(read) ELSE read.moved \/ read.newRound \/ Emptied(read) \/ Rebuilt(read)
Suspected(now, read) ==
  \/ Compared(now) /\ Hitch(now) /\ ~Rebuilt(read) /\ Emptied(read)
  \/ /\ ~Compared(now) /\ seen # NotSeenYet /\ outage = NoOutage
     /\ seen.players >= 10 /\ read.players = 0 /\ read.newRound
RestartAt(now) == IF outage # NoOutage THEN outage.since ELSE seen.at
Holding(now, read) ==
  IF held = NotHeld /\ Suspected(now, read)
  THEN [at |-> IF Compared(now) THEN RestartAt(now) ELSE now, players |-> seen.players] ELSE held
Confirmed(now, read) ==
  LET p == Holding(now, read) IN
  ~Reported(now, read) /\ p # NotHeld /\ ~Refilled(read) /\ now - p.at > HoldFor
Kept(now, read) ==
  LET p == Holding(now, read) IN
  IF Reported(now, read) \/ Refilled(read) \/ Confirmed(now, read) THEN NotHeld ELSE p

\* The outage ends with the second good read in a row; if it was posted, so is its end.
Good(now, read) ==
  LET successes == IF outage = NoOutage THEN 0 ELSE outage.successes + 1
      first == IF outage # NoOutage /\ outage.first # NotYet THEN outage.first ELSE now
      ends == successes >= 2
      back == ends /\ outage.down
      restart == Reported(now, read) \/ Confirmed(now, read)
      at == IF Confirmed(now, read) THEN Holding(now, read).at ELSE RestartAt(now) IN
  /\ outage' = IF outage = NoOutage \/ ends THEN NoOutage
               ELSE [outage EXCEPT !.successes = successes, !.first = first]
  /\ downs' = IF back THEN downs - 1 ELSE downs
  /\ held' = Kept(now, read)
  /\ boundary' = IF back THEN [at |-> first] ELSE IF restart THEN [at |-> at] ELSE boundary
  \* A scheduled restart with few players on is recorded only; otherwise one post per limit.
  /\ \E recordOnly \in BOOLEAN :
       limitAt' = IF restart /\ ~recordOnly /\ (limitAt = NotYet \/ now - limitAt >= RestartLimit) THEN now ELSE limitAt
  /\ seen' = [at |-> now, players |-> read.players, build |-> read.build]
  /\ fullAt' = IF read.players > 1 THEN now ELSE fullAt

-----------------------------------------------------------------------------
(* Seeding *)

\* Mutant: an unreadable span does not pause the low timer.
PauseIgnored(e, t) == FALSE
\* The server could not be read after this time.
Paused(e, t) ==
  \/ e.pausedSince # NotYet /\ t >= e.pausedSince
  \/ \E i \in 1 .. Len(e.pauses) : t \in e.pauses[i][1] .. e.pauses[i][2] - 1
\* lowElapsed: the time since, without the spans in which the server could not be read.
LowElapsed(e, from, now) == Cardinality({t \in from .. now - 1 : ~Paused(e, t)})

LastPauses(pauses) == IF Len(pauses) > MaxPauses THEN Tail(pauses) ELSE pauses
Resumed(e, now) ==
  IF e = NoEpisode \/ e.pausedSince = NotYet THEN e
  ELSE [e EXCEPT !.pauses = LastPauses(Append(e.pauses, <<e.pausedSince, now>>)), !.pausedSince = NotYet]

\* The episode ends after a while above the threshold in a row, with a message if it was posted.
NotLowRead(e, now, before) ==
  LET since == IF e.notLow = NotYet THEN now ELSE e.notLow
      ends == now - since >= LowEnd IN
  IF e = NoEpisode THEN episode' = e /\ wrong' = before /\ UNCHANGED called
  ELSE /\ episode' = IF ends THEN NoEpisode ELSE [e EXCEPT !.notLow = since]
       /\ wrong' = before \cup When(ends /\ (e.restart \/ e.prime) /\ called = {}, "recovered")
       /\ called' = IF ends THEN {} ELSE called

\* A low read: each trigger posts once, after the low time it asks for.
LowRead(old, now, before) ==
  LET e == IF old = NoEpisode
           THEN [start |-> now, pauses |-> <<>>, pausedSince |-> NotYet, notLow |-> NotYet,
                 restart |-> FALSE, prime |-> FALSE]
           ELSE [old EXCEPT !.notLow = NotYet]
      fromRestart == Later(e.start, boundary'.at)
      fromPrime == Later(e.start, PrimeFrom)
      restart == /\ boundary' # NoBoundary /\ now - boundary'.at <= LowWatch /\ ~e.restart
                 /\ LowElapsed(e, fromRestart, now) >= LowFor
      prime == now \in PrimeFrom .. PrimeTo - 1 /\ ~e.prime /\ LowElapsed(e, fromPrime, now) >= LowFor
      posts == When(restart, "restart") \cup When(prime, "prime")
      Early(from) == /\ Len(e.pauses) < MaxPauses
                     /\ Cardinality((from .. now - 1) \ blind') < LowFor IN
  /\ episode' = [e EXCEPT !.restart = e.restart \/ restart, !.prime = e.prime \/ prime]
  /\ called' = called \cup posts
  /\ wrong' = before \cup When(posts \cap called # {}, "again")
                    \cup When((restart /\ Early(fromRestart)) \/ (prime /\ Early(fromPrime)), "early")

-----------------------------------------------------------------------------
(* The worker: one read at a time, at any distance *)

Passed(now) ==
  /\ readAt' = now /\ now <= LastRead
  /\ blind' = IF failedLast THEN blind \cup readAt .. now - 1 ELSE blind

\* failed: an outage that staff asked for counts for seeding only.
ReadFails ==
  \E gap \in Pauses, asked \in BOOLEAN :
    LET now == readAt + gap IN
    /\ Passed(now) /\ failedLast' = TRUE
    /\ IF asked THEN UNCHANGED healthState ELSE Failed(now)
    /\ episode' = IF episode = NoEpisode \/ episode.pausedSince # NotYet THEN episode
                  ELSE [episode EXCEPT !.pausedSince = now]
    /\ UNCHANGED <<called, wrong>>

\* observed
ReadSucceeds ==
  \E gap \in Pauses, read \in [players : Counts, moved : BOOLEAN, newRound : BOOLEAN, build : Builds] :
    LET now == readAt + gap IN
    /\ Passed(now) /\ failedLast' = FALSE
    /\ Good(now, read)
    /\ LET e == Resumed(episode, now)
           before == wrong \cup When(Confirmed(now, read) /\ fullAt' >= Holding(now, read).at, "refilled") IN
       IF read.players < LowBelow THEN LowRead(e, now, before) ELSE NotLowRead(e, now, before)

HealthNext == ReadFails \/ ReadSucceeds
HealthSpec == HealthInit /\ [][HealthNext]_healthVars

-----------------------------------------------------------------------------
(* Properties *)

HealthTypeOK ==
  /\ readAt \in 0 .. LastRead /\ seen.at \in {NotYet} \cup 0 .. LastRead /\ limitAt \in {NotYet} \cup 0 .. LastRead
  /\ outage # NoOutage => outage.failures \in 1 .. 2 /\ outage.successes \in 0 .. 1
  /\ episode # NoEpisode => Len(episode.pauses) <= MaxPauses

\* A post that the game is down is followed by one that it is back before the next one is made, through
\* any flapping of the reads.
DownThenBack == downs \in 0 .. 1 /\ (downs = 1 <=> outage # NoOutage /\ outage.down)

\* A restart that only an empty server suggests is reported only if no read since has shown players.
HeldRestartStayedEmpty == "refilled" \notin wrong

\* A call for players is posted once for each trigger of an episode, never before the server has been low for
\* the configured time since that trigger while it could be read (unless it was lost so often that the episode
\* has forgotten when), and "players are back" only after one.
CalledInTime == wrong \cap {"early", "again", "recovered"} = {}

\* What staff are told of a server's health adds up, through restarts, lost reads and read gaps.
HealthPostsTrue == DownThenBack /\ HeldRestartStayedEmpty /\ CalledInTime
=============================================================================
