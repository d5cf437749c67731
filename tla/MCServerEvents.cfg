SPECIFICATION Spec
CONSTANTS
  w1 = w1  w2 = w2  r1 = r1  p1 = p1 
  Workers = {w1, w2}
  Restores = {}
  Players = {p1}
  Nobody = Nobody
  RetryLimit = 2
  RestoreAttempts = 1
  PlannedRounds = 1
  ForceRespawn = TRUE
  PlayerMessages = TRUE
  MaxRound = 1
SYMMETRY Symmetry
CHECK_DEADLOCK FALSE
INVARIANTS LockRestored StopsStay MovedOnce
