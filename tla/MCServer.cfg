SPECIFICATION Spec
SYMMETRY Symmetric
CONSTANTS
  k1 = k1  q1 = q1  n1 = n1  n2 = n2  n3 = n3  j1 = j1  a1 = a1
  ReadGap = 1  HoldFor = 2  DownAfter = 2  RestartLimit = 3  LowBelow = 5  LowFor = 2  LowWatch = 4  LowEnd = 1  PrimeFrom = 4  PrimeTo = 6  MaxPauses = 2  Counts = {0, 2, 10}  Builds = {0, 1, 2}  Pauses = {1, 2}  LastRead = 6
  GameServers = {n1, n2}  AlertKeys = {k1}  RepeatFor = 1  AlertHour = 3  PerHour = 2  PingGap = 1  PostsMax = 1  MaxAlerts = 3  LastAlertTime = 1
  SampleGap = 1  WindowFor = 2  WindowKills = 1  MatchKills = 2  CooldownFor = 3  UnseenFor = 2  MaxGain = 1  Gaps = {1, 2}  LastReadTime = 5
  Watched = {q1}  LeaveGrace = 1  MapHold = 2  StaleAfter = 3  AgainAfter = 2  ReadSteps = {1, 2}  LastWatch = 9
  Joiners = {q1}  LeaveGraceFor = 4  BaselineGap = 1  RoundHold = 5  WelcomeDelay = 1  WelcomeSpacing = 1  WelcomeLength = 2  MessageTtl = 2  MaxQueue = 2  TickSteps = {1, 2}  LastTick = 8
  Calls = {n1, n2, n3}  Presses = {j1}  CooldownMs = 1  LastCallTime = 2
  LastWeek = 2  MaxStarts = 2  Admins = {a1}  WeekHours = 72
  Servers = {q1}  Addresses = {n1, n2}  MinuteLimit = 1  MaxPeers = 1  Minute = 2  MaxArrivals = 3
  Players = {"p", "q"}  Firearms = {"ak", "m4"}  LongShotMax = 4  PublicMax = 5  ListLength = 1  MaxEvents = 3  Clocks = {1, 2}
  Shapes <- KillShapes
  CauseKey <- CauseKeys
  LabelOf <- CauseLabels
  StandardTime <- EasternStandard
  SummerTime <- EasternSummer
CHECK_DEADLOCK FALSE
INVARIANTS HealthPostsTrue AlertsBounded  MessagesFit PostsOnTime 
