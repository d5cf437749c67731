------------------------------ MODULE MCGame ------------------------------
(* What the bot reads from and writes to the game: the components are independent,
   and a behaviour explores one of them, named by part. *)
EXTENDS ScoreWatch, RoundTracker, NextMap, Telemetry, TLC

CONSTANTS w1, d1, d2, k1, t1, t2, r1, r2

Selected(map, rules, look) == [map |-> map, rules |-> rules, look |-> look]
Alpha == Selected("a", "x", "day")
AlphaStrict == Selected("a", "y", "day")
Bravo == Selected("b", "x", "day")
BravoNight == Selected("b", "x", "night")
Charlie == Selected("c", "y", "day")
ShortRotation == <<Bravo, AlphaStrict, Alpha>>
SavedRotations == {<<Alpha, Bravo, BravoNight, Alpha>>, ShortRotation}
QueuedPicks == {Alpha, BravoNight, Charlie}
PolicyOf(maps, modes, notCurrent, pool, recent, count, fifty) ==
  [maps |-> maps, modes |-> modes, notCurrent |-> notCurrent, pool |-> pool, recent |-> recent,
   count |-> count, fifty |-> fifty]
SavedPolicies ==
  {PolicyOf(TRUE, TRUE, FALSE, <<>>, 1, 3, FALSE),
   PolicyOf(TRUE, TRUE, TRUE, <<Bravo, Charlie, AlphaStrict>>, 0, 3, TRUE),
   PolicyOf(FALSE, FALSE, FALSE, <<>>, 0, 2, TRUE),
   PolicyOf(TRUE, FALSE, FALSE, <<Charlie, Bravo>>, 2, 2, FALSE)}
ObservedPlaces == {[reports |-> {"clock"}, sameMaps |-> TRUE], [reports |-> {"index"}, sameMaps |-> TRUE],
                   [reports |-> {}, sameMaps |-> FALSE]}

VARIABLE part  \* the component this behaviour explores

Parts == {"reminders", "rounds", "rotation", "telemetry"}

\* The others stay in one of their initial states.
Init ==
  /\ part \in Parts
  /\ WatchInit /\ (part # "reminders" => lead = 1 /\ wanted = {} /\ channels = {"discord"})
  /\ TrackInit /\ (part # "rounds" => game.top = 0 /\ reports = {})
  /\ NextMapInit /\ (part # "rotation" => rotation = ShortRotation /\ running = 1 /\ wraps)
  /\ FeedInit

Next ==
  \/ /\ part = "reminders" /\ WatchNext
     /\ UNCHANGED <<part, trackVars, nextVars, feedVars>>
  \/ /\ part = "rounds" /\ TrackNext
     /\ UNCHANGED <<part, watchVars, nextVars, feedVars>>
  \/ /\ part = "rotation" /\ NextMapNext
     /\ UNCHANGED <<part, watchVars, trackVars, feedVars>>
  \/ /\ part = "telemetry" /\ FeedNext
     /\ UNCHANGED <<part, watchVars, trackVars, nextVars>>
vars == <<part, watchVars, trackVars, nextVars, feedVars>>
Spec == Init /\ [][Next]_vars

\* Every component keeps its types: reminders, rounds, the rotation, combat events.
TypeOK ==
  /\ part = "reminders" => WatchTypeOK
  /\ part = "rounds" => TrackTypeOK
  /\ part = "rotation" => NextMapTypeOK
  /\ part = "telemetry" => FeedTypeOK

\* Scores are heeded and rounds named from what was read: see ScoreWatch and RoundTracker.
RoundsRead ==
  /\ TypeOK
  /\ part = "reminders" => ScoresHeeded
  /\ part = "rounds" => OneNamePerRound
====================================================================
