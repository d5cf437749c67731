SPECIFICATION FairSpec
CONSTANTS
  w1 = w1  w2 = w2  r1 = r1  p1 = p1 
  Workers = {w1}
  Restores = {r1}
  Players = {p1}
  Nobody = Nobody
  RetryLimit = 2
  RestoreAttempts = 2
  PlannedRounds = 1
  ForceRespawn = TRUE
  PlayerMessages = TRUE
  MaxRound = 0
CHECK_DEADLOCK FALSE
INVARIANTS OneSender
PROPERTIES EventEnds
