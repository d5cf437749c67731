SPECIFICATION Spec
CONSTANTS
  w1 = w1  d1 = d1  d2 = d2  k1 = k1  t1 = t1  t2 = t2  r1 = r1  r2 = r2
  Watchers = {w1}  Target = 5  CloseAt = 4  EarlyAt = 3  MidpointAt = 1  FinalAt = 2  LargestStep = 2  OpeningScores = {1}
  Gap = 1  MergeWindow = 3  Drop = 2  FullScore = 8  LastTime = 3  Rounds = 2
  Places <- ObservedPlaces
  Rotations <- SavedRotations
  Picks <- QueuedPicks
  Policies <- SavedPolicies
  MaxRounds = 2  MaxEdits = 1
  Deliveries = {d1, d2}  Kills = {k1}  OtherTypes = {t1, t2}  Viewers = {r1, r2}  TypeLimit = 1  Retention = 1  LastDay = 2  MaxBatches = 2
CHECK_DEADLOCK FALSE
INVARIANTS RoundsRead NextMapHolds FeedCountsTrue
