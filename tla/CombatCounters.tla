----------------------------- MODULE CombatCounters -----------------------------
(***************************************************************************)
(* The kill counters staff alerts read off the roster (performance-state.ts,*)
(* the raisePerformance of staff-alerts.monitor.ts). The game's counters run, *)
(* restart with a rejoin or a game restart, and are read now and then; a      *)
(* player may be missing from a read. One player stands for all of them.     *)
(***************************************************************************)
EXTENDS Integers, Sequences, FiniteSets

CONSTANTS SampleGap,     \* SAMPLE_GAP_MS
          WindowFor,     \* windowMinutes
          WindowKills, MatchKills, \* the two rules
          CooldownFor,   \* cooldownMinutes
          UnseenFor,     \* UNSEEN_MS
          MaxGain,       \* bound: kills of a player between two reads
          Gaps,          \* bound: times between two reads
          LastReadTime   \* bound: time

ASSUME CountersAssumption ==
  /\ {SampleGap, WindowFor, WindowKills, MatchKills, CooldownFor, UnseenFor, MaxGain, LastReadTime} \subseteq Nat
  /\ Gaps \subseteq Nat \ {0}

VARIABLES
  counter,  \* the game: the kills the player's counter shows
  tracked,  \* players: [first, seen, missed, base, carried, last, samples, alerted, true], or NotTracked
  cooldown, \* cooldowns: until
  roundId,  \* roundKey: the round reducer's round, and the restarts found in it (epoch)
  sampledAt, \* lastAt
  posted    \* history: alerts posted, [round, at]

counterVars == <<counter, tracked, cooldown, roundId, sampledAt, posted>>

NotTracked == [first |-> 0 - 1]

CountersInit ==
  /\ counter = 0 /\ tracked = NotTracked /\ cooldown = 0 /\ roundId = <<0, 0>> /\ sampledAt = 0 /\ posted = {}

Counted(t) == t.carried + t.last - t.base
MinOf(a, b) == IF a < b THEN a ELSE b

\* Mutant: a counter that fell is taken as it reads.
FellIgnored(t, kills) == t
\* A rejoin or a counter reset keeps the round's total and restarts the rate window.
Fell(t, kills) ==
  IF kills < t.last
  THEN [t EXCEPT !.carried = t.carried + t.last - t.base, !.base = kills, !.samples = <<>>] ELSE t

\* Samples: <<time, counted, true kills>>, in order of time; the last one is this read's.
Inside(samples, now) ==
  SubSeq(samples, 1 + Cardinality({i \in DOMAIN samples : samples[i][1] < now - WindowFor}), Len(samples))
Sampled(old, kills, gain, now) ==
  LET gap == now - sampledAt > SampleGap
      t0 == [old EXCEPT !.samples = IF gap \/ old.missed >= 2 THEN <<>> ELSE old.samples, !.true = old.true + gain]
      t == [Fell(t0, kills) EXCEPT !.last = kills, !.missed = 0, !.seen = now]
      samples == Append(t.samples, <<now, Counted(t), t.true>>) IN
  [t EXCEPT !.samples = Inside(samples, now)]

\* The rate is evaluated over steady reads of at least one sample gap.
WindowOf(t, now) ==
  LET n == Len(t.samples) IN
  IF n >= 2 /\ now - t.samples[1][1] >= SampleGap
     /\ \A i \in 2 .. n : t.samples[i][1] - t.samples[i - 1][1] <= SampleGap
  THEN Counted(t) - t.samples[1][2] ELSE 0
Matched(t, now) ==
  (IF WindowOf(t, now) >= WindowKills THEN {"window"} ELSE {})
    \cup (IF Counted(t) >= MatchKills THEN {"match"} ELSE {})

First(kills, now) ==
  [first |-> now, seen |-> now, missed |-> 0, base |-> kills, carried |-> 0, last |-> kills,
   samples |-> <<<<now, 0, 0>>>>, alerted |-> {}, true |-> 0]
Missing(t, now, gain) ==
  IF t = NotTracked \/ now - t.seen > UnseenFor THEN NotTracked
  ELSE [t EXCEPT !.missed = MinOf(2, t.missed + 1), !.true = t.true + gain]

\* A second rule for a player in one round updates the record and posts nothing.
Amends(t) == t.alerted # {}

\* Mutant: the cooldowns are forgotten with the players of a round.
CoolingForgotten(now) == cooldown > now /\ tracked # NotTracked /\ cooldown - CooldownFor >= tracked.first
Cooling(now) == cooldown > now

\* observePerformance: one read of the roster. restarted: the reading looks like a restart, or most tracked
\* players' counters fell in it, the sign of a game restart that nothing else showed.
ReadCounters ==
  \E gap \in Gaps, before, after \in 0 .. MaxGain,
     present, reset, nextRound, restarted, evaluate \in BOOLEAN :
    LET now == sampledAt + gap
        kills == IF reset THEN after ELSE counter + before
        new == nextRound \/ restarted
        old == IF new THEN NotTracked ELSE tracked
        read == IF ~present THEN Missing(old, now, before + after)
                ELSE IF old = NotTracked THEN First(kills, now) ELSE Sampled(old, kills, before + after, now)
        fresh == IF evaluate /\ present /\ old # NotTracked THEN Matched(read, now) \ old.alerted ELSE {}
        raises == fresh # {} /\ ~Amends(old) /\ ~Cooling(now)
        round == IF nextRound THEN <<roundId[1] + 1, 0>> ELSE IF new THEN <<roundId[1], roundId[2] + 1>> ELSE roundId IN
    /\ now <= LastReadTime /\ (reset \/ after = 0)
    /\ counter' = kills /\ sampledAt' = now /\ roundId' = round
    /\ tracked' = IF fresh = {} THEN read ELSE [read EXCEPT !.alerted = @ \cup fresh]
    /\ cooldown' = IF raises THEN now + CooldownFor ELSE cooldown
    \* Staff alerts keep one alert per key, and a cooling player's alert is recorded only.
    /\ posted' = IF raises /\ ~\E a \in posted : a.round = round
                  THEN posted \cup {[round |-> round, at |-> now]} ELSE posted

CountersNext == ReadCounters
CountersSpec == CountersInit /\ [][CountersNext]_counterVars

-----------------------------------------------------------------------------
(* Properties *)

CountersTypeOK ==
  /\ sampledAt \in 0 .. LastReadTime /\ counter \in Nat
  /\ tracked # NotTracked => tracked.missed \in 0 .. 2 /\ tracked.alerted \subseteq {"window", "match"}

\* A player is never shown with more kills than they made since first seen this round, nor more within the
\* rate window than they made in it, through rejoins, restarts and missed reads.
NeverOverCounted ==
  tracked # NotTracked =>
    /\ Counted(tracked) \in 0 .. tracked.true
    /\ tracked.samples # <<>> => Counted(tracked) - tracked.samples[1][2] <= tracked.true - tracked.samples[1][3]

\* One player is posted once in a round and, in any rounds, no sooner than the cooldown.
AskedOncePerRound ==
  \A a, b \in posted : a # b => a.round # b.round /\ (a.at - b.at >= CooldownFor \/ b.at - a.at >= CooldownFor)

\* What staff are asked to review was really counted, and they are asked once.
ReviewsFair == NeverOverCounted /\ AskedOncePerRound
=============================================================================
